---- MODULE Spec2Model ----
(***************************************************************************)
(* Model of the vending console (Upper Computer): the VMC serial framer,   *)
(* the link session with its polled command queue, the transaction         *)
(* coordinator with the eSocket payment client, and the MQTT router.       *)
(*                                                                         *)
(* SpecFramer : byte level. A byte stream is read in arbitrary fragments   *)
(*              into recv_buffer and decoded by _process_incoming_data.    *)
(* Spec       : packet level. Decoded VMC packets, gateway responses and   *)
(*              MQTT requests are handled by the asyncio tasks of          *)
(*              services/vending.py, services/esocket.py and               *)
(*              services/broker.py.                                        *)
(***************************************************************************)
EXTENDS Integers, Sequences, FiniteSets, TLC

(***************************************************************************)
(* Bounds of the model.                                                    *)
(***************************************************************************)
\* number of frames put on the serial line in SpecFramer
MaxFrames == 2
\* number of purchases the keypad starts in Spec
MaxTxn == 2
\* sequence bytes the VMC uses on SELECT_CANCEL packets: 1..MaxSeq
MaxSeq == 2
\* catalogue selections of the model: 1..MaxSel
MaxSel == 2
\* number of MQTT requests processed in Spec
MaxMqtt == 1
\* number of MQTT requests processed in SpecBroker
MaxRequests == 2
\* bytes of data of a packet in SpecRoundTrip
MaxData == 3

(***************************************************************************)
(* Python's None for integer-valued attributes.                            *)
(***************************************************************************)
None == -1

(***************************************************************************)
(* VMC_COMMANDS codes (utils/commands.py).                                 *)
(***************************************************************************)
POLL == 65
ACK == 66
SELECTION_INFO == 17
SET_PRICE == 18
SET_INVENTORY == 19
DISPENSING_STATUS == 4
SELECT_CANCEL == 5
DIRECT_DRIVE == 6
SET_CAPACITY == 20
MACHINE_STATUS == 81

\* MQTTBroker: selections are 1..100, a tray holds 10 of them
MaxSelection == 100
TraySize == 10

VARIABLES
  \* ---- framer (SpecFramer) ----
  stream,        \* bytes the VMC has put on the line and the UC has not read yet
  sent_frames,   \* ghost: the frames the stream was built from, in order
  recv_buffer,   \* VendingMachine.recv_buffer
  dispatched,    \* packets handed to _handle_packet, in order
  \* ---- link session and coordinator (VendingMachine) ----
  serial_connected,     \* VendingMachine.serial_connected
  command_queue,        \* VendingMachine.command_queue, oldest first
  current_selection,    \* VendingMachine.current_selection
  task,                 \* VendingMachine._current_transaction_task and its coroutine
  current_transaction_id, \* VendingMachine._current_transaction_id
  last_cancel_packet,   \* VendingMachine._last_cancel_packet (None: attribute not set)
  esocket_connected,    \* VendingMachine.esocket_connected
  ready,                \* asyncio: callbacks and tasks scheduled with call_soon, in order
  \* ---- payment client (ESocketClient) and gateway ----
  es,                   \* ESocketClient: is_connected, writer, terminal_id
  gw_pending,           \* requests written to the socket, not yet answered
  tcp_in,               \* responses on the socket, not yet read
  \* ---- persistent tables (db/core.py) ----
  Prices,               \* the prices table: selection -> document
  Sales,                \* the sales table
  \* ---- observation ----
  sent_now,             \* packets written to the serial line by the last step
  txns,                 \* ghost: the purchases started, in order
  gw_approved,          \* ghost: purchases the gateway answered with APPROVE
  dd_tx,                \* ghost: purchases whose DIRECT_DRIVE was transmitted
  dd_by_resp,           \* ghost: purchases whose response made a DIRECT_DRIVE be enqueued
  reversals,            \* reversal requests sent to the gateway
  n_mqtt,               \* ghost: MQTT requests processed
  inv_written,          \* ghost: selections whose inventory an MQTT request wrote
  \* ---- MQTT router (MQTTBroker) ----
  connected,            \* MQTTBroker.connected
  published,            \* the messages published on the status topics, in order
  orphans,              \* documents of the prices table that hold no selection
  \* ---- the reconnect loops ----
  reader,               \* VendingMachine.reader in SpecConnect: "none", "open" or "eof"
  loop_pc,              \* where each reconnect loop stands
  loop_delay,           \* the local variable delay of each reconnect loop
  slept,                \* ghost: the delays each loop slept since it began or succeeded
  \* ---- counters and identifiers (SpecNumbers) ----
  packet_number,        \* VendingMachine.packet_number
  seq_sent,             \* ghost: the sequence bytes of the packets the last sending step built
  generated             \* the last transaction id generated: its kind and its digits

framerVars == <<stream, sent_frames, recv_buffer, dispatched>>
linkVars == <<serial_connected, command_queue, current_selection, task,
              current_transaction_id, last_cancel_packet, esocket_connected, ready>>
payVars == <<es, gw_pending, tcp_in>>
dbVars == <<Prices, Sales>>
obsVars == <<sent_now, txns, gw_approved, dd_tx, dd_by_resp, reversals, n_mqtt, inv_written>>
mainVars == <<linkVars, payVars, dbVars, obsVars>>
brokerVars == <<connected, published, orphans>>
connVars == <<reader, loop_pc, loop_delay, slept>>
numVars == <<packet_number, seq_sent, generated>>
vars == <<framerVars, mainVars, brokerVars, connVars, numVars>>

(***************************************************************************)
(* Bytes and XOR.                                                          *)
(***************************************************************************)
RECURSIVE BitXor(_, _)
BitXor(a, b) ==
  IF a = 0 THEN b
  ELSE IF b = 0 THEN a
  ELSE (((a % 2) + (b % 2)) % 2) + 2 * BitXor(a \div 2, b \div 2)

RECURSIVE calculate_xor(_)
calculate_xor(data) ==
  IF data = <<>> THEN 0
  ELSE BitXor(calculate_xor(SubSeq(data, 1, Len(data) - 1)), data[Len(data)])

STX == <<250, 251>>

\* a variant of create_packet whose length byte counts the data only
create_packet_bytes_short(command, data, pn) ==
  LET body == STX \o <<command>> \o <<Len(data)>> \o <<pn>> \o data
  IN body \o <<calculate_xor(body)>>

\* create_packet without the counter update: the bytes built for (command, data)
\* with sequence byte pn
create_packet_bytes(command, data, pn) ==
  LET body == IF data # <<>>
              THEN STX \o <<command>> \o <<Len(data) + 1>> \o <<pn>> \o data
              ELSE STX \o <<command>> \o <<1>> \o <<pn>>
  IN body \o <<calculate_xor(body)>>

\* bytes.find(STX): the first 1-based position of STX in data, 0 when absent
FindSTX(data) ==
  LET hits == {i \in 1..(Len(data) - 1) : data[i] = STX[1] /\ data[i + 1] = STX[2]}
  IN IF hits = {} THEN 0 ELSE CHOOSE i \in hits : \A j \in hits : i <= j

Drop(data, n) == SubSeq(data, n + 1, Len(data))

\* _extract_packet: packet = <<>> stands for None
extract_packet(data) ==
  LET stx_pos == FindSTX(data) IN
  IF stx_pos = 0 THEN [packet |-> <<>>, remaining |-> data]
  ELSE
    LET d == Drop(data, stx_pos - 1) IN
    IF Len(d) < 5 THEN [packet |-> <<>>, remaining |-> d]
    ELSE
      LET length == d[4]
          packet_end == 4 + length + 1
      IN
      IF Len(d) < packet_end THEN [packet |-> <<>>, remaining |-> d]
      ELSE
        LET packet == SubSeq(d, 1, packet_end)
            remaining == Drop(d, packet_end)
        IN
        IF calculate_xor(SubSeq(packet, 1, packet_end - 1)) # packet[packet_end]
        THEN [packet |-> <<>>, remaining |-> Drop(d, 2)]
        ELSE [packet |-> packet, remaining |-> remaining]

\* _process_incoming_data: the loop over the buffer; out collects the packets
\* handed to _handle_packet. The buffer is reassigned only after a packet was
\* handled: on "not packet" the loop breaks and recv_buffer keeps its value.
RECURSIVE process_incoming_data(_, _)
process_incoming_data(buf, out) ==
  IF Len(buf) < 5 THEN [buf |-> buf, out |-> out]
  ELSE
    LET r == extract_packet(buf) IN
    IF r.packet = <<>> THEN [buf |-> buf, out |-> out]
    ELSE process_incoming_data(r.remaining, Append(out, r.packet))

(***************************************************************************)
(* SpecFramer: frames on the line.                                         *)
(***************************************************************************)
FrameCmds == {POLL, SELECT_CANCEL}
FrameDatas == {<<>>, <<0, 7>>}
FrameSeq == 17

GoodFrames == {create_packet_bytes(c, d, FrameSeq) : c \in FrameCmds, d \in FrameDatas}

\* a frame whose XOR byte is wrong
Corrupt(p) == [p EXCEPT ![Len(p)] = BitXor(p[Len(p)], 1)]
\* a frame cut short: STX and header, the last two bytes missing
Runt(p) == SubSeq(p, 1, Len(p) - 2)

Frames ==
  {[kind |-> "good", bytes |-> p] : p \in GoodFrames}
  \cup {[kind |-> "corrupt", bytes |-> Corrupt(p)] : p \in GoodFrames}
  \cup {[kind |-> "runt", bytes |-> Runt(p)] : p \in GoodFrames}

RECURSIVE Concat(_)
Concat(fs) == IF fs = <<>> THEN <<>> ELSE fs[1].bytes \o Concat(Tail(fs))

FrameSeqs == UNION {[1..n -> Frames] : n \in 1..MaxFrames}

FramerInit ==
  /\ sent_frames \in FrameSeqs
  /\ stream = Concat(sent_frames)
  /\ recv_buffer = <<>>
  /\ dispatched = <<>>

\* _communication_loop, lines 247-250: one read of n bytes, then
\* _process_incoming_data on the extended buffer
SerialRead(n) ==
  /\ n \in 1..Len(stream)
  /\ LET r == process_incoming_data(recv_buffer \o SubSeq(stream, 1, n), <<>>) IN
       /\ recv_buffer' = r.buf
       /\ dispatched' = dispatched \o r.out
  /\ stream' = Drop(stream, n)
  /\ UNCHANGED sent_frames

FramerNext == \E n \in 1..Len(stream) : SerialRead(n)

(***************************************************************************)
(* Spec: the link session, the coordinator, the payment client.            *)
(*                                                                         *)
(* The program is single-threaded asyncio. A handler runs without          *)
(* interruption up to its next real suspension; writer.drain(),            *)
(* Queue.put on the unbounded queue, the uncontended Lock and Semaphore do *)
(* not suspend. The steps of the model are: the handling of one decoded    *)
(* VMC packet by _handle_packet, one step of the purchase task, one        *)
(* callback or task taken from the event loop's ready queue, the handling  *)
(* of one MQTT request, and the events of the environment. Sequence bytes  *)
(* of transmitted packets are not part of this specification.              *)
(***************************************************************************)
Selections == 1..MaxSel
SeqBytes == 1..MaxSeq
\* values of time.time() at which transaction ids are drawn
ClockValues == {0}
\* prices and inventories that MQTT requests write
PriceValues == {150}
InventoryValues == {2}
\* DISPENSING_STATUS codes: in progress, success, jam
StatusSuccess == {0, 2}
StatusError == {3, 4, 6, 7, 255}
StatusValues == {1, 2, 3}

Max(a, b) == IF a >= b THEN a ELSE b
Min(a, b) == IF a <= b THEN a ELSE b

\* int.to_bytes(2, "big") and int.to_bytes(4, "big")
to_bytes2(n) == <<n \div 256, n % 256>>
to_bytes4(n) == <<n \div 16777216, (n \div 65536) % 256, (n \div 256) % 256, n % 256>>

\* a document of the prices table; a missing document, a missing field
NoDoc == [present |-> FALSE, price |-> None, inventory |-> None, capacity |-> None]
\* dict.get(field, 0)
GetOr0(v) == IF v = None THEN 0 ELSE v

\* Prices.get(query.selection == selection)
PricesGet(selection) ==
  IF selection \in Selections /\ Prices[selection].present THEN Prices[selection] ELSE NoDoc

NoTask == [st |-> "none", txn |-> 0, tid |-> None, amount |-> 0, result |-> "none", rtxn |-> 0]

\* entries of the event loop's ready queue
TaskStepEntry == [k |-> "task_step", cmd |-> 0, data |-> <<>>, t |-> 0, why |-> ""]
CallbackEntry == [k |-> "callback", cmd |-> 0, data |-> <<>>, t |-> 0, why |-> ""]
QueueCommandEntry(code, data, t) ==
  [k |-> "queue_command", cmd |-> code, data |-> data, t |-> t, why |-> ""]
CancelSelectionEntry(why) ==
  [k |-> "cancel_selection", cmd |-> 0, data |-> <<>>, t |-> 0, why |-> why]

\* transaction_id of a purchase: str((int(time.time()) % 900000) + 100000)
PurchaseTransactionId(now) == (now % 900000) + 100000

(***************************************************************************)
(* The attributes a handler and the methods it calls read and write,       *)
(* threaded through the calls: out collects the packets written.           *)
(***************************************************************************)
Ctx ==
  [serial |-> serial_connected, q |-> command_queue, cs |-> current_selection,
   ctid |-> current_transaction_id, lcp |-> last_cancel_packet, task |-> task,
   rdy |-> ready, txns |-> txns, out |-> <<>>, ret |-> FALSE]

\* _send_command: writes one packet when the link is up
send_command(c, command, data, t) ==
  IF ~c.serial THEN [c EXCEPT !.ret = FALSE]
  ELSE [c EXCEPT !.out = Append(@, [cmd |-> command, data |-> data, t |-> t]),
                 !.ret = TRUE]

\* queue_command: t is the ghost tag of the purchase the command belongs to
queue_command(c, code, data, t) ==
  IF ~c.serial THEN [c EXCEPT !.ret = FALSE]
  ELSE [c EXCEPT !.q = Append(@, [cmd |-> code, data |-> data, t |-> t]),
                 !.ret = TRUE]

\* a variant of reset_machine_state that keeps the command queue
reset_machine_state_keeps_queue(c) ==
  LET c1 == [c EXCEPT !.ctid = None, !.cs = None] IN
  IF c1.serial THEN send_command(c1, ACK, <<>>, 0) ELSE c1

\* reset_machine_state: clears the transaction, replaces the queue, final ACK
reset_machine_state(c) ==
  LET c1 == [c EXCEPT !.ctid = None, !.cs = None, !.q = <<>>] IN
  IF c1.serial THEN send_command(c1, ACK, <<>>, 0) ELSE c1

\* cancel_selection: queue SELECT_CANCEL(0), then reset_machine_state
cancel_selection(c) ==
  reset_machine_state(queue_command(c, SELECT_CANCEL, to_bytes2(0), 0))

\* a variant of _handle_poll that answers a POLL only when a command is queued
handle_poll_silent(c) ==
  IF c.q # <<>>
  THEN send_command([c EXCEPT !.q = Tail(@)], Head(c.q).cmd, Head(c.q).data, Head(c.q).t)
  ELSE c

\* _handle_poll: the oldest queued command, or an ACK
handle_poll(c) ==
  IF c.q # <<>>
  THEN send_command([c EXCEPT !.q = Tail(@)], Head(c.q).cmd, Head(c.q).data, Head(c.q).t)
  ELSE send_command(c, ACK, <<>>, 0)

\* _process_payment without the test of the amount
process_payment_any_amount(c, selection, now) ==
  IF c.task.st # "none"
  THEN (IF c.serial THEN send_command(c, ACK, <<>>, 0) ELSE c)
  ELSE IF ~esocket_connected THEN cancel_selection(c)
  ELSE
    LET selection_data == PricesGet(selection)
        amount == GetOr0(selection_data.price)
        transaction_id == PurchaseTransactionId(now)
        n == Len(c.txns) + 1
        body ==
          IF ~selection_data.present THEN cancel_selection(c)
          ELSE [c EXCEPT
                 !.ctid = transaction_id,
                 !.task = [st |-> "created", txn |-> n, tid |-> transaction_id,
                           amount |-> amount, result |-> "none", rtxn |-> 0],
                 !.rdy = Append(@, TaskStepEntry),
                 !.txns = Append(@, [sel |-> selection, tid |-> transaction_id,
                                     phase |-> "paying"])]
    IN IF body.serial THEN send_command(body, ACK, <<>>, 0) ELSE body

\* _process_payment
process_payment(c, selection, now) ==
  IF c.task.st # "none"
  THEN (IF c.serial THEN send_command(c, ACK, <<>>, 0) ELSE c)
  ELSE IF ~esocket_connected THEN cancel_selection(c)
  ELSE
    LET selection_data == PricesGet(selection)
        amount == GetOr0(selection_data.price)
        transaction_id == PurchaseTransactionId(now)
        n == Len(c.txns) + 1
        body ==
          IF ~selection_data.present THEN cancel_selection(c)
          ELSE IF amount <= 0 THEN cancel_selection(c)
          ELSE [c EXCEPT
                 !.ctid = transaction_id,
                 !.task = [st |-> "created", txn |-> n, tid |-> transaction_id,
                           amount |-> amount, result |-> "none", rtxn |-> 0],
                 !.rdy = Append(@, TaskStepEntry),
                 !.txns = Append(@, [sel |-> selection, tid |-> transaction_id,
                                     phase |-> "paying"])]
    IN IF body.serial THEN send_command(body, ACK, <<>>, 0) ELSE body

\* the effect of Task.cancel() and of awaiting the cancelled task: the coroutine
\* ends with CancelledError, payment_callback runs and only its finally clause
\* takes effect (CancelledError is no Exception), then the handler's finally
cancel_task(c) ==
  [c EXCEPT !.task = NoTask, !.cs = None,
            !.rdy = SelectSeq(@, LAMBDA e : e.k # "task_step")]

\* _handle_selection_cancel without the test for a repeated packet number
handle_selection_cancel_no_dedup(c, packet_no, selection, now) ==
  LET c1 == [c EXCEPT !.lcp = packet_no, !.q = <<>>] IN
  IF selection = 0
  THEN
    LET c2 == IF c1.task.st \in {"created", "sent"} THEN cancel_task(c1) ELSE c1
    IN send_command([c2 EXCEPT !.cs = None], ACK, <<>>, 0)
  ELSE
    LET c2 == IF c1.task.st \in {"none", "done"}
              THEN process_payment([c1 EXCEPT !.cs = selection], selection, now)
              ELSE c1
    IN send_command(c2, ACK, <<>>, 0)

\* _handle_selection_cancel for a payload of at least two bytes
handle_selection_cancel(c, packet_no, selection, now) ==
  IF c.lcp = packet_no THEN send_command(c, ACK, <<>>, 0)
  ELSE
    LET c1 == [c EXCEPT !.lcp = packet_no, !.q = <<>>] IN
    IF selection = 0
    THEN
      LET c2 == IF c1.task.st \in {"created", "sent"} THEN cancel_task(c1) ELSE c1
      IN send_command([c2 EXCEPT !.cs = None], ACK, <<>>, 0)
    ELSE
      LET c2 == IF c1.task.st \in {"none", "done"}
                THEN process_payment([c1 EXCEPT !.cs = selection], selection, now)
                ELSE c1
      IN send_command(c2, ACK, <<>>, 0)

\* ESocketClient has no method send_reversal_transaction: the call in
\* _handle_dispensing_status raises AttributeError before anything is written to
\* the socket, and the handler's except clause logs it
send_reversal_transaction_exists == FALSE

\* a variant of _handle_dispensing_status whose error branch does not call
\* cancel_selection
handle_dispensing_status_no_reset(c, status_code) ==
  IF status_code \in StatusSuccess \cup StatusError
  THEN send_command([c EXCEPT !.cs = None], ACK, <<>>, 0)
  ELSE send_command(c, ACK, <<>>, 0)

\* _handle_dispensing_status for a payload of at least two bytes
handle_dispensing_status(c, status_code) ==
  IF status_code \in StatusSuccess
  THEN send_command([c EXCEPT !.cs = None], ACK, <<>>, 0)
  ELSE IF status_code \in StatusError
  THEN send_command(cancel_selection([c EXCEPT !.cs = None]), ACK, <<>>, 0)
  ELSE send_command(c, ACK, <<>>, 0)

\* the reversal requests _handle_dispensing_status gets onto the socket
reversals_after_status(status_code, now) ==
  IF status_code \in StatusError /\ send_reversal_transaction_exists
  THEN reversals \cup {[orig |-> current_transaction_id]}
  ELSE reversals

\* the assignment of a context to the attributes
Commit(c) ==
  /\ serial_connected' = c.serial
  /\ command_queue' = c.q
  /\ current_selection' = c.cs
  /\ current_transaction_id' = c.ctid
  /\ last_cancel_packet' = c.lcp
  /\ task' = c.task
  /\ ready' = c.rdy
  /\ txns' = c.txns
  /\ sent_now' = c.out

\* ghost: the purchases of a phase, the oldest approved purchase
InPhase(ts, ph) == {i \in 1..Len(ts) : ts[i].phase = ph}
SetPhase(ts, S, ph) == [i \in 1..Len(ts) |-> IF i \in S THEN [ts[i] EXCEPT !.phase = ph] ELSE ts[i]]
Awaiting == {i \in InPhase(txns, "approved") : i \in dd_tx}
Oldest(S) == CHOOSE i \in S : \A j \in S : i <= j

\* ghost bookkeeping of what a step wrote to the line
TxGhost(out) ==
  /\ dd_tx' = dd_tx \cup {out[i].t : i \in {j \in 1..Len(out) : out[j].cmd = DIRECT_DRIVE}}

(***************************************************************************)
(* Initial state: the objects as constructed, the tables as provisioned.   *)
(***************************************************************************)
InitPrices ==
  [s \in Selections |->
     IF s = 1 THEN [present |-> TRUE, price |-> 150, inventory |-> 2, capacity |-> 5]
     ELSE NoDoc]

\* the reconnect loops: _connect_serial called by connect() ("initial") and by
\* _monitor_connections ("monitor"), _connect_payment_terminal ("payment"), and
\* MQTTBroker._monitor_connection ("mqtt")
Loops == {"initial", "monitor", "payment", "mqtt"}

\* _reconnect_delay and _max_reconnect_delay, in seconds
reconnect_delay == 5
max_reconnect_delay == 60

\* __init__: packet_number = 1; no packet built and no id generated yet
NumbersInit ==
  /\ packet_number = 1
  /\ seq_sent = <<>>
  /\ generated = <<>>

\* before connect() and start() are called
LoopsInit ==
  /\ reader = "none"
  /\ loop_pc = [l \in Loops |-> "none"]
  /\ loop_delay = [l \in Loops |-> reconnect_delay]
  /\ slept = [l \in Loops |-> <<>>]

MainInit ==
  /\ serial_connected = FALSE
  /\ command_queue = <<>>
  /\ current_selection = None
  /\ task = NoTask
  /\ current_transaction_id = None
  /\ last_cancel_packet = None
  /\ esocket_connected = FALSE
  /\ ready = <<>>
  /\ es = [is_connected |-> FALSE, writer |-> FALSE, terminal_id |-> None]
  /\ gw_pending = <<>>
  /\ tcp_in = <<>>
  /\ Prices = InitPrices
  /\ Sales = <<>>
  /\ sent_now = <<>>
  /\ txns = <<>>
  /\ gw_approved = {}
  /\ dd_tx = {}
  /\ dd_by_resp = {}
  /\ reversals = {}
  /\ n_mqtt = 0
  /\ inv_written = {}
  /\ connected = TRUE
  /\ published = <<>>
  /\ orphans = <<>>
  /\ LoopsInit
  /\ NumbersInit

FramerIdle ==
  /\ stream = <<>>
  /\ sent_frames = <<>>
  /\ recv_buffer = <<>>
  /\ dispatched = <<>>

Init == FramerIdle /\ MainInit

(***************************************************************************)
(* The serial link.                                                        *)
(***************************************************************************)
\* _connect_serial succeeds (from connect() or from _monitor_connections)
SerialUp ==
  /\ UNCHANGED <<framerVars, brokerVars, connVars, numVars>>
  /\ ~serial_connected
  /\ serial_connected' = TRUE
  /\ sent_now' = <<>>
  /\ UNCHANGED <<command_queue, current_selection, task, current_transaction_id,
                 last_cancel_packet, esocket_connected, ready, payVars, dbVars,
                 txns, gw_approved, dd_tx, dd_by_resp, reversals,
                 n_mqtt, inv_written>>

\* the link fails: _communication_loop's except clause, or the monitor at EOF
SerialDown ==
  /\ UNCHANGED <<framerVars, brokerVars, connVars, numVars>>
  /\ serial_connected
  /\ serial_connected' = FALSE
  /\ sent_now' = <<>>
  /\ UNCHANGED <<command_queue, current_selection, task, current_transaction_id,
                 last_cancel_packet, esocket_connected, ready, payVars, dbVars,
                 txns, gw_approved, dd_tx, dd_by_resp, reversals,
                 n_mqtt, inv_written>>

(***************************************************************************)
(* Decoded VMC packets (_handle_packet). The loop reads only while the     *)
(* link is up.                                                             *)
(***************************************************************************)
VmcPoll ==
  /\ UNCHANGED <<framerVars, brokerVars, connVars, numVars>>
  /\ serial_connected
  /\ LET c == handle_poll(Ctx) IN Commit(c) /\ TxGhost(c.out)
  /\ UNCHANGED <<esocket_connected, payVars, dbVars, gw_approved, dd_by_resp,
                 reversals, n_mqtt, inv_written>>

\* ghost: what a SELECT_CANCEL packet does to the purchases
SelectCancelPhases(c, packet_no, selection) ==
  IF last_cancel_packet # packet_no /\ selection = 0
     /\ task.st \in {"created", "sent", "done"}
  THEN SetPhase(c.txns, {task.txn}, "cancelled")
  ELSE c.txns

VmcSelectCancel(packet_no, selection, now) ==
  /\ UNCHANGED <<framerVars, brokerVars, connVars, numVars>>
  /\ serial_connected
  /\ selection # 0 => Len(txns) < MaxTxn
  /\ LET c == handle_selection_cancel(Ctx, packet_no, selection, now) IN
       /\ Commit([c EXCEPT !.txns = SelectCancelPhases(c, packet_no, selection)])
       /\ TxGhost(c.out)
  /\ UNCHANGED <<esocket_connected, payVars, dbVars, gw_approved, dd_by_resp,
                 reversals, n_mqtt, inv_written>>

\* the VMC reports on a dispense it was commanded to do
VmcDispensingStatus(status_code, now) ==
  /\ UNCHANGED <<framerVars, brokerVars, connVars, numVars>>
  /\ serial_connected
  /\ Awaiting # {}
  /\ LET c == handle_dispensing_status(Ctx, status_code)
         t == Oldest(Awaiting)
         ts == IF status_code \in StatusSuccess THEN SetPhase(c.txns, {t}, "dispensed")
               ELSE IF status_code \in StatusError THEN SetPhase(c.txns, {t}, "failed")
               ELSE c.txns
     IN /\ Commit([c EXCEPT !.txns = ts])
        /\ TxGhost(c.out)
  /\ reversals' = reversals_after_status(status_code, now)
  /\ UNCHANGED <<esocket_connected, payVars, dbVars, gw_approved, dd_by_resp,
                 n_mqtt, inv_written>>

\* the payload lengths a handler tells apart: a payload is the packet number and
\* the data; SELECT_CANCEL and DISPENSING_STATUS want 2 bytes, SELECTION_INFO 12
PayloadLengths == {1, 12}

\* _handle_selection_info
handle_selection_info(c, payload_len) ==
  IF payload_len < 12 THEN c ELSE send_command(c, ACK, <<>>, 0)

\* _handle_packet for the packets the two actions above do not cover: a
\* SELECTION_INFO, a SELECT_CANCEL or a DISPENSING_STATUS whose payload is
\* shorter than 2 bytes (the handler returns), any other command
handle_packet_other(c, cmd, payload_len) ==
  IF cmd = SELECTION_INFO THEN handle_selection_info(c, payload_len)
  ELSE IF cmd \in {DISPENSING_STATUS, SELECT_CANCEL} THEN c
  ELSE send_command(c, ACK, <<>>, 0)

OtherCommands == {SELECTION_INFO, DISPENSING_STATUS, SELECT_CANCEL, MACHINE_STATUS}

VmcPacket(cmd, payload_len) ==
  /\ UNCHANGED <<framerVars, brokerVars, connVars, numVars>>
  /\ serial_connected
  /\ cmd \in {DISPENSING_STATUS, SELECT_CANCEL} => payload_len < 2
  /\ LET c == handle_packet_other(Ctx, cmd, payload_len) IN Commit(c) /\ TxGhost(c.out)
  /\ UNCHANGED <<esocket_connected, payVars, dbVars, gw_approved, dd_by_resp,
                 reversals, n_mqtt, inv_written>>

(***************************************************************************)
(* The payment client (ESocketClient) and the gateway.                     *)
(***************************************************************************)
\* ESocketClient.disconnect
disconnect(e) == [is_connected |-> FALSE, writer |-> FALSE, terminal_id |-> None]

\* ESocketClient.connect: healthy is _is_connection_healthy(), ok is whether
\* open_connection succeeds within the attempts. fresh tells a new socket.
connect(e, healthy, ok) ==
  IF e.is_connected /\ healthy THEN [e |-> e, fresh |-> FALSE, ret |-> TRUE]
  ELSE
    LET e1 == IF e.writer THEN disconnect(e) ELSE e IN
    IF ok THEN [e |-> [e1 EXCEPT !.is_connected = TRUE, !.writer = TRUE],
                fresh |-> TRUE, ret |-> TRUE]
    ELSE [e |-> [e1 EXCEPT !.is_connected = FALSE], fresh |-> e.writer, ret |-> FALSE]

\* _parse_response: success tells that ET.fromstring accepted the body
parse_response(response) ==
  [raw_response |-> response, success |-> response.xml]

\* _connect_payment_terminal: connect(), then initialize_terminal(), whose result
\* is not looked at; an exception (no connection, no INIT response) leaves
\* esocket_connected false for the next attempt. answered: the INIT got a
\* response; approve: that response holds ActionCode="APPROVE".
TerminalId == 1
connect_payment_attempt(ok, answered, approve) ==
  /\ UNCHANGED <<framerVars, brokerVars>>
  /\ ~esocket_connected
  /\ es.is_connected => (gw_pending = <<>> /\ tcp_in = <<>>)
  /\ LET r == connect(es, es.writer, ok)
         \* result = self._parse_response(response), returned to a caller that
         \* drops it
         result == parse_response([approve |-> approve, xml |-> TRUE])
     IN
       IF ~r.ret
       THEN /\ es' = r.e
            /\ esocket_connected' = FALSE
            /\ UNCHANGED <<gw_pending, tcp_in>>
       ELSE /\ es' = [r.e EXCEPT !.terminal_id = TerminalId,
                                 !.is_connected = answered]
            /\ esocket_connected' = answered
            /\ gw_pending' = <<>>
            /\ tcp_in' = <<>>
  /\ sent_now' = <<>>
  /\ UNCHANGED <<serial_connected, command_queue, current_selection, task,
                 current_transaction_id, last_cancel_packet, ready, dbVars,
                 txns, gw_approved, dd_tx, dd_by_resp, reversals,
                 n_mqtt, inv_written>>

\* one attempt of _connect_payment_terminal, whenever the terminal is not
\* connected
ConnectPaymentTerminal(ok, answered, approve) ==
  /\ UNCHANGED <<connVars, numVars>>
  /\ connect_payment_attempt(ok, answered, approve)

\* _monitor_connections, lines 152-157
MonitorPayment ==
  /\ UNCHANGED <<framerVars, brokerVars, connVars, numVars>>
  /\ esocket_connected /\ ~es.is_connected
  /\ esocket_connected' = FALSE
  /\ sent_now' = <<>>
  /\ UNCHANGED <<serial_connected, command_queue, current_selection, task,
                 current_transaction_id, last_cancel_packet, ready, payVars, dbVars,
                 txns, gw_approved, dd_tx, dd_by_resp, reversals,
                 n_mqtt, inv_written>>

\* a purchase task whose failure is never delivered
finish_task_lost(tk, result, rtxn) ==
  IF result = "error" THEN tk
  ELSE [tk EXCEPT !.st = "done", !.result = result, !.rtxn = rtxn]

\* the purchase task ends with a result: its done callback is scheduled
finish_task(tk, result, rtxn) == [tk EXCEPT !.st = "done", !.result = result, !.rtxn = rtxn]

\* The first step of the purchase task, send_purchase_transaction up to the read
\* of the response: connect() when the connection is not healthy, the XML with
\* terminal_id (None cannot be serialised: TypeError), _send_message's connect()
\* when not connected, the write of the request.
\* stale: no activity for 30 s; ok: whether open_connection succeeds.
TaskStep(stale, ok) ==
  /\ UNCHANGED <<framerVars, brokerVars, connVars, numVars>>
  /\ ready # <<>> /\ Head(ready).k = "task_step"
  /\ task.st = "created"
  /\ LET healthy == es.writer /\ ~stale
         r1 == IF healthy THEN [e |-> es, fresh |-> FALSE, ret |-> TRUE]
               ELSE connect(es, healthy, ok)
         r2 == IF r1.e.terminal_id = None THEN r1
               ELSE IF ~r1.e.is_connected \/ ~r1.e.writer
               THEN LET r == connect(r1.e, healthy /\ r1.e.writer, ok)
                    IN [r EXCEPT !.fresh = r1.fresh \/ r.fresh]
               ELSE r1
         written == r1.e.terminal_id # None /\ r2.ret
         pend == IF r2.fresh THEN <<>> ELSE gw_pending
     IN /\ es' = r2.e
        /\ tcp_in' = IF r2.fresh THEN <<>> ELSE tcp_in
        /\ gw_pending' = IF written
                         THEN Append(pend, [txn |-> task.txn, tid |-> task.tid,
                                            amount |-> task.amount])
                         ELSE pend
        /\ task' = IF written THEN [task EXCEPT !.st = "sent"]
                   ELSE finish_task(task, "error", 0)
        /\ ready' = IF written THEN Tail(ready) ELSE Append(Tail(ready), CallbackEntry)
  /\ sent_now' = <<>>
  /\ UNCHANGED <<serial_connected, command_queue, current_selection,
                 current_transaction_id, last_cancel_packet, esocket_connected,
                 dbVars, txns, gw_approved, dd_tx, dd_by_resp, reversals, n_mqtt, inv_written>>

\* the gateway answers the oldest request. approve: the body holds
\* ActionCode="APPROVE"; xml: the body is well-formed XML
GwRespond(approve, xml) ==
  /\ UNCHANGED <<framerVars, brokerVars, connVars, numVars>>
  /\ gw_pending # <<>>
  /\ tcp_in' = Append(tcp_in, [approve |-> approve, xml |-> xml,
                                txn |-> Head(gw_pending).txn])
  /\ gw_pending' = Tail(gw_pending)
  /\ gw_approved' = IF approve /\ xml THEN gw_approved \cup {Head(gw_pending).txn}
                     ELSE gw_approved
  /\ sent_now' = <<>>
  /\ UNCHANGED <<linkVars, es, dbVars, txns, dd_tx, dd_by_resp, reversals, n_mqtt, inv_written>>

\* is_approved without the test for ActionCode="APPROVE"
is_approved_any(response) == response.success

\* payment_callback: response.get("success") and 'ActionCode="APPROVE"' in raw_response
is_approved(response) == response.success /\ response.raw_response.approve

\* _send_message reads the next response on the socket; _parse_response
TaskRead ==
  /\ UNCHANGED <<framerVars, brokerVars, connVars, numVars>>
  /\ task.st = "sent"
  /\ tcp_in # <<>>
  /\ task' = finish_task(task,
                         IF is_approved(parse_response(Head(tcp_in)))
                         THEN "approve" ELSE "decline",
                         Head(tcp_in).txn)
  /\ tcp_in' = Tail(tcp_in)
  /\ ready' = Append(ready, CallbackEntry)
  /\ sent_now' = <<>>
  /\ UNCHANGED <<serial_connected, command_queue, current_selection,
                 current_transaction_id, last_cancel_packet, esocket_connected,
                 es, gw_pending, dbVars, txns, gw_approved, dd_tx, dd_by_resp,
                 reversals, n_mqtt, inv_written>>

\* _send_message: no response within 10 s
TaskTimeout ==
  /\ UNCHANGED <<framerVars, brokerVars, connVars, numVars>>
  /\ task.st = "sent"
  /\ tcp_in = <<>>
  /\ task' = finish_task(task, "error", 0)
  /\ es' = [es EXCEPT !.is_connected = FALSE]
  /\ ready' = Append(ready, CallbackEntry)
  /\ sent_now' = <<>>
  /\ UNCHANGED <<serial_connected, command_queue, current_selection,
                 current_transaction_id, last_cancel_packet, esocket_connected,
                 gw_pending, tcp_in, dbVars, txns, gw_approved, dd_tx, dd_by_resp,
                 reversals, n_mqtt, inv_written>>

(***************************************************************************)
(* Callbacks and tasks the event loop runs, oldest first.                  *)
(***************************************************************************)
\* new_inventory without the saturation at 0
new_inventory_unsaturated(selection_data) == GetOr0(selection_data.inventory) - 1

\* new_inventory = max(0, current_inventory - 1)
new_inventory(selection_data) == Max(0, GetOr0(selection_data.inventory) - 1)

\* payment_callback, the approved branch: whether a DIRECT_DRIVE is commanded
can_dispense(selection_data) == selection_data.present /\ serial_connected

\* payment_callback, the approved branch: the tasks it creates
approved_tasks(selection, selection_data, t) ==
  IF can_dispense(selection_data)
  THEN <<QueueCommandEntry(DIRECT_DRIVE, <<1, 1>> \o to_bytes2(selection), t),
         QueueCommandEntry(SET_INVENTORY,
                           to_bytes2(selection) \o <<new_inventory(selection_data)>>, 0)>>
  ELSE <<CancelSelectionEntry("no_dispense")>>

\* payment_callback, the approved branch: Prices.update({"inventory": ...})
approved_prices(selection, selection_data) ==
  IF can_dispense(selection_data)
  THEN [Prices EXCEPT ![selection].inventory = new_inventory(selection_data)]
  ELSE Prices

\* payment_callback: the done callback of the purchase task
PaymentCallback ==
  /\ UNCHANGED <<framerVars, brokerVars, connVars, numVars>>
  /\ ready # <<>> /\ Head(ready).k = "callback"
  /\ LET selection == current_selection
         selection_data == PricesGet(selection)
         approved == task.result = "approve"
         dispense == approved /\ can_dispense(selection_data)
         was_cancelled == txns[task.txn].phase = "cancelled"
     IN /\ ready' = Tail(ready) \o
                      (IF approved THEN approved_tasks(selection, selection_data, task.txn)
                       ELSE <<CancelSelectionEntry("decline")>>)
        /\ Prices' = IF approved THEN approved_prices(selection, selection_data)
                     ELSE Prices
        /\ txns' = IF was_cancelled THEN txns
                   ELSE SetPhase(txns, {task.txn},
                                 IF dispense THEN "approved"
                                 ELSE IF approved THEN "dropped" ELSE "declined")
        /\ dd_by_resp' = IF dispense THEN dd_by_resp \cup {task.rtxn} ELSE dd_by_resp
  /\ current_selection' = None
  /\ task' = NoTask
  /\ sent_now' = <<>>
  /\ UNCHANGED <<serial_connected, command_queue, current_transaction_id,
                 last_cancel_packet, esocket_connected, payVars, Sales,
                 gw_approved, dd_tx, reversals, n_mqtt, inv_written>>

\* a task created for queue_command(...)
RunQueueCommand ==
  /\ UNCHANGED <<framerVars, brokerVars, connVars, numVars>>
  /\ ready # <<>> /\ Head(ready).k = "queue_command"
  /\ LET h == Head(ready)
         c == queue_command([Ctx EXCEPT !.rdy = Tail(ready)], h.cmd, h.data, h.t)
     IN Commit(c)
  /\ UNCHANGED <<esocket_connected, payVars, dbVars, gw_approved, dd_tx, dd_by_resp,
                 reversals, n_mqtt, inv_written>>

\* a task created for cancel_selection()
RunCancelSelection ==
  /\ UNCHANGED <<framerVars, brokerVars, connVars, numVars>>
  /\ ready # <<>> /\ Head(ready).k = "cancel_selection"
  /\ LET c == cancel_selection([Ctx EXCEPT !.rdy = Tail(ready)]) IN Commit(c)
  /\ UNCHANGED <<esocket_connected, payVars, dbVars, gw_approved, dd_tx, dd_by_resp,
                 reversals, n_mqtt, inv_written>>

(***************************************************************************)
(* MQTT requests with a single selection (MQTTBroker, connected).          *)
(***************************************************************************)
\* Prices.upsert({"selection": selection, field: value}, query.selection == selection)
upsert_price(selection, price) ==
  [Prices EXCEPT ![selection].present = TRUE, ![selection].price = price]
upsert_inventory(selection, inventory) ==
  [Prices EXCEPT ![selection].present = TRUE, ![selection].inventory = inventory]

\* _handle_price_update, selection branch
MqttSetPrice(selection, price) ==
  /\ UNCHANGED <<framerVars, brokerVars, connVars, numVars>>
  /\ n_mqtt < MaxMqtt
  /\ n_mqtt' = n_mqtt + 1
  /\ Prices' = upsert_price(selection, price)
  /\ LET c == queue_command(Ctx, SET_PRICE, to_bytes2(selection) \o to_bytes4(price), 0)
     IN Commit(c)
  /\ UNCHANGED <<esocket_connected, payVars, Sales, gw_approved, dd_tx, dd_by_resp,
                 reversals, inv_written>>

\* _handle_inventory_update, selection branch
MqttSetInventory(selection, inventory) ==
  /\ UNCHANGED <<framerVars, brokerVars, connVars, numVars>>
  /\ n_mqtt < MaxMqtt
  /\ n_mqtt' = n_mqtt + 1
  /\ Prices' = upsert_inventory(selection, inventory)
  /\ LET c == queue_command(Ctx, SET_INVENTORY, to_bytes2(selection) \o <<inventory>>, 0)
     IN Commit(c)
  /\ inv_written' = inv_written \cup {selection}
  /\ UNCHANGED <<esocket_connected, payVars, Sales, gw_approved, dd_tx, dd_by_resp,
                 reversals>>

(***************************************************************************)
(* The MQTT router (MQTTBroker): set_price, set_inventory, set_capacity    *)
(* and get_prices in their three targeting modes, with the values a        *)
(* payload can carry. A payload field that is missing is None.              *)
(***************************************************************************)
\* a variant that counts the selections of a tray from 10 * tray, as
\* utils/inventory.py does
TraySelectionsFromZero(tray_number) ==
  {tray_number * TraySize + i : i \in 0..(TraySize - 1)}

\* the selections a tray holds (range(10)), and the ones "all" addresses
TraySelections(tray_number) ==
  {tray_number * TraySize + 1 + i : i \in 0..(TraySize - 1)}
AllSelections == 1..MaxSelection

\* the keys of the prices table that the requests of this model can reach
CatalogueKeys == 1..(MaxSelection + TraySize)
\* the selections provisioned before the router starts
Provisioned == 1..35
InitCatalogue ==
  [s \in CatalogueKeys |->
     IF s \in Provisioned
     THEN [present |-> TRUE, price |-> 150, inventory |-> 2, capacity |-> 5]
     ELSE NoDoc]

\* the payloads of the requests: a selection in and out of 1..100, a tray in and
\* out of 0..9, a value in range, negative, above a byte, or missing
SelectionInputs == {None, 35, 36, 101}
TrayInputs == {None, 0, 3, 9, 10}
PriceInputs == {None, 200, -2}
ByteInputs == {None, 5, 7, 256}
Payloads(values) ==
  [selection : SelectionInputs, tray : TrayInputs, all : BOOLEAN, value : values]

\* int.to_bytes(length, "big") raises for a negative value and for one that
\* needs more bytes; None has no to_bytes
CanEncode(v, length) ==
  /\ v # None /\ v >= 0
  /\ length = 1 => v <= 255
  /\ length = 2 => v <= 65535

\* what a handler reads and writes
BrokerCtx ==
  [prices |-> Prices, orphans |-> orphans, q |-> command_queue, pub |-> published]

\* a message on a status topic: success, whether it carries an error, and the
\* number of entries of its results array
Response(topic, success, error) ==
  [topic |-> topic, success |-> success, error |-> error, prices |-> {},
   results |-> 0]

\* self.client.publish(...) under "if self.connected"
publish(b, message) ==
  IF connected THEN [b EXCEPT !.pub = Append(@, message)] ELSE b

\* vending_machine.queue_command(name, data) from a handler of the router
broker_queue_command(b, code, data) ==
  LET c == queue_command([Ctx EXCEPT !.q = b.q], code, data, 0)
  IN [b |-> [b EXCEPT !.q = c.q], ret |-> c.ret]

\* a variant that writes the field only to the documents that exist
update_with_selection(P, S, field, value) ==
  [s \in DOMAIN P |->
     IF s \in S /\ P[s].present THEN [P[s] EXCEPT ![field] = value] ELSE P[s]]

\* Prices.upsert({"selection": sel, field: value}, query.selection == sel) for
\* every sel of S
upsert_with_selection(P, S, field, value) ==
  [s \in DOMAIN P |->
     IF s \in S THEN [P[s] EXCEPT !.present = TRUE, ![field] = value] ELSE P[s]]

\* Prices.update({field: value}, query.selection == sel) for every sel of S: only
\* the documents that exist
update_existing(P, S, field, value) ==
  [s \in DOMAIN P |->
     IF s \in S /\ P[s].present THEN [P[s] EXCEPT ![field] = value] ELSE P[s]]

\* the selections of S that have no document
Missing(P, S) == {s \in S : s \notin DOMAIN P \/ ~P[s].present}

\* Prices.upsert({"inventory": inventory}, query.selection == sel) for every sel
\* of S: a document that exists is updated; otherwise the document given, which
\* holds no selection, is inserted
upsert_without_selection(b, S, inventory) ==
  [b EXCEPT !.prices = update_existing(@, S, "inventory", inventory),
            !.orphans = @ \o [i \in 1..Cardinality(Missing(b.prices, S)) |->
                                [inventory |-> inventory]]]

\* the tail of the three handlers: the encoding of the command, queue_command,
\* the response; an exception of the encoding is answered by the except clause
\* reports_result: whether success is set from the result of queue_command
command_and_response(b, topic, code, target, value, length, reports_result) ==
  IF ~CanEncode(target, 2) \/ ~CanEncode(value, length)
  THEN publish(b, Response(topic, FALSE, TRUE))
  ELSE LET data == to_bytes2(target) \o
                     (IF length = 4 THEN to_bytes4(value) ELSE <<value>>)
           r == broker_queue_command(b, code, data)
       IN publish(r.b, [Response(topic, reports_result /\ r.ret, FALSE)
                          EXCEPT !.results = IF reports_result THEN 1 ELSE 0])

\* _handle_price_update
handle_price_update(b, payload) ==
  LET price == payload.value
      topic == "price_update_status"
  IN IF ~connected THEN b
     ELSE IF price = None /\ ~payload.all THEN b
     ELSE IF payload.selection # None
     THEN IF ~(1 <= payload.selection /\ payload.selection <= MaxSelection) THEN b
          ELSE command_and_response(
                 [b EXCEPT !.prices =
                    upsert_with_selection(@, {payload.selection}, "price", price)],
                 topic, SET_PRICE, payload.selection, price, 4, TRUE)
     ELSE IF payload.tray # None
     THEN command_and_response(
            [b EXCEPT !.prices =
               upsert_with_selection(@, TraySelections(payload.tray), "price", price)],
            topic, SET_PRICE, 1000 + payload.tray, price, 4, TRUE)
     ELSE IF payload.all
     THEN command_and_response(
            [b EXCEPT !.prices = upsert_with_selection(@, AllSelections, "price", price)],
            topic, SET_PRICE, 0, price, 4, FALSE)
     ELSE b

\* _handle_inventory_update
handle_inventory_update(b, payload) ==
  LET inventory == payload.value
      topic == "inventory_update_status"
  IN IF ~connected THEN b
     ELSE IF inventory = None /\ ~payload.all THEN b
     ELSE IF inventory = None THEN publish(b, Response(topic, FALSE, TRUE))
     ELSE IF ~(0 <= inventory /\ inventory <= 255) THEN b
     ELSE IF payload.selection # None
     THEN IF ~(1 <= payload.selection /\ payload.selection <= MaxSelection) THEN b
          ELSE command_and_response(
                 [b EXCEPT !.prices =
                    upsert_with_selection(@, {payload.selection}, "inventory", inventory)],
                 topic, SET_INVENTORY, payload.selection, inventory, 1, TRUE)
     ELSE IF payload.tray # None
     THEN command_and_response(
            upsert_without_selection(b, TraySelections(payload.tray), inventory),
            topic, SET_INVENTORY, 1000 + payload.tray, inventory, 1, TRUE)
     ELSE IF payload.all
     THEN command_and_response(
            upsert_without_selection(b, AllSelections, inventory),
            topic, SET_INVENTORY, 0, inventory, 1, TRUE)
     ELSE b

\* _handle_capacity_update
handle_capacity_update(b, payload) ==
  LET capacity == payload.value
      topic == "capacity_update_status"
      target == IF payload.selection # None THEN {payload.selection}
                ELSE IF payload.tray # None THEN TraySelections(payload.tray)
                ELSE AllSelections
      special == IF payload.selection # None THEN payload.selection
                 ELSE IF payload.tray # None THEN 1000 + payload.tray
                 ELSE 0
  IN IF ~connected THEN b
     ELSE IF capacity = None /\ ~payload.all THEN b
     ELSE IF capacity = None THEN publish(b, Response(topic, FALSE, TRUE))
     ELSE IF ~(0 <= capacity /\ capacity <= 255) THEN b
     ELSE IF payload.selection # None
             /\ ~(1 <= payload.selection /\ payload.selection <= MaxSelection) THEN b
     ELSE IF payload.selection = None /\ payload.tray = None /\ ~payload.all THEN b
     ELSE command_and_response(
            [b EXCEPT !.prices = update_existing(@, target, "capacity", capacity)],
            topic, SET_CAPACITY, special, capacity, 1, TRUE)

\* _handle_get_prices: Prices.all(), one entry per document
prices_list(P, orph) ==
  {[selection |-> s, price |-> P[s].price, inventory |-> P[s].inventory,
    capacity |-> P[s].capacity] : s \in {k \in DOMAIN P : P[k].present}}
  \cup {[selection |-> None, price |-> None, inventory |-> orph[i].inventory,
         capacity |-> None] : i \in 1..Len(orph)}

handle_get_prices(b) ==
  [b EXCEPT !.pub = Append(@, [topic |-> "prices", success |-> TRUE, error |-> FALSE,
                               prices |-> prices_list(b.prices, b.orphans),
                               results |-> 0])]

\* the assignment of a handler's result
BrokerCommit(b) ==
  /\ Prices' = b.prices
  /\ orphans' = b.orphans
  /\ command_queue' = b.q
  /\ published' = b.pub

BrokerFrame ==
  /\ n_mqtt < MaxRequests
  /\ n_mqtt' = n_mqtt + 1
  /\ sent_now' = <<>>
  /\ UNCHANGED <<framerVars, serial_connected, current_selection, task,
                 current_transaction_id, last_cancel_packet, esocket_connected, ready,
                 payVars, Sales, txns, gw_approved, dd_tx, dd_by_resp, reversals,
                 inv_written, connected, connVars, numVars>>

\* process_messages: a set_price message
HandlePriceUpdate(payload) ==
  /\ BrokerFrame
  /\ BrokerCommit(handle_price_update(BrokerCtx, payload))

\* process_messages: a set_inventory message
HandleInventoryUpdate(payload) ==
  /\ BrokerFrame
  /\ BrokerCommit(handle_inventory_update(BrokerCtx, payload))

\* process_messages: a set_capacity message
HandleCapacityUpdate(payload) ==
  /\ BrokerFrame
  /\ BrokerCommit(handle_capacity_update(BrokerCtx, payload))

\* process_messages: a get_prices message; messages are skipped when not connected
HandleGetPrices ==
  /\ BrokerFrame
  /\ BrokerCommit(IF connected THEN handle_get_prices(BrokerCtx) ELSE BrokerCtx)

\* _on_connect with rc = 0, _on_disconnect
OnConnect ==
  /\ ~connected
  /\ connected' = TRUE
  /\ sent_now' = <<>>
  /\ UNCHANGED <<framerVars, linkVars, payVars, dbVars, txns, gw_approved, dd_tx,
                 dd_by_resp, reversals, n_mqtt, inv_written, published, orphans,
                 connVars, numVars>>

OnDisconnect ==
  /\ connected
  /\ connected' = FALSE
  /\ sent_now' = <<>>
  /\ UNCHANGED <<framerVars, linkVars, payVars, dbVars, txns, gw_approved, dd_tx,
                 dd_by_resp, reversals, n_mqtt, inv_written, published, orphans,
                 connVars, numVars>>

(***************************************************************************)
(* The reconnect loops (SpecConnect). A loop stands at "none" (not         *)
(* called), "attempt" (about to try), "sleeping" (in its backoff sleep),   *)
(* "check" (at the top of a monitor's cycle) or "returned".                *)
(* open_serial_connection and _cleanup_serial do not suspend; the TCP      *)
(* connect of the payment client does.                                     *)
(***************************************************************************)
\* consecutive failures of one loop that the model follows
MaxFailures == 6

\* delay * 2 without the cap
next_delay_uncapped(delay) == delay * 2

\* delay = min(delay * 2, self._max_reconnect_delay)
next_delay(delay) == Min(delay * 2, max_reconnect_delay)

\* what a pass of a loop reads and writes
LoopCtx(l) ==
  [pc |-> loop_pc[l], delay |-> loop_delay[l], slept |-> slept[l],
   serial_connected |-> serial_connected, reader |-> reader]

\* a call of a loop's function: delay = self._reconnect_delay
loop_call(c) == [c EXCEPT !.delay = reconnect_delay, !.slept = <<>>]

\* await asyncio.sleep(delay)
loop_sleep(c) == [c EXCEPT !.pc = "sleeping", !.slept = Append(@, c.delay)]

\* delay = self._reconnect_delay  # Reset delay on success
loop_success(c) == [c EXCEPT !.delay = reconnect_delay, !.slept = <<>>]

\* _connect_serial: one pass of its while loop, from the test of the condition
\* to the return or to the sleep. ok: open_serial_connection succeeds
connect_serial_pass(c, ok) ==
  IF c.serial_connected THEN [c EXCEPT !.pc = "returned"]
  ELSE IF ok
  THEN [loop_success(c) EXCEPT !.reader = "open", !.serial_connected = TRUE,
                               !.pc = "returned"]
  ELSE loop_sleep([c EXCEPT !.serial_connected = FALSE])

\* _monitor_connections, lines 151-157: the payment terminal is marked lost and
\* a task for _connect_payment_terminal is created
payment_lost == esocket_connected /\ ~es.is_connected

\* the assignment of a pass of loop l; start_payment: _connect_payment_terminal
\* is called or created as a task
LoopCommit(l, c, start_payment, lost) ==
  /\ serial_connected' = c.serial_connected
  /\ reader' = c.reader
  /\ esocket_connected' = IF lost THEN FALSE ELSE esocket_connected
  /\ loop_pc' = IF start_payment
                THEN [loop_pc EXCEPT ![l] = c.pc, !["payment"] = "attempt"]
                ELSE [loop_pc EXCEPT ![l] = c.pc]
  /\ loop_delay' = IF start_payment
                   THEN [loop_delay EXCEPT ![l] = c.delay, !["payment"] = reconnect_delay]
                   ELSE [loop_delay EXCEPT ![l] = c.delay]
  /\ slept' = IF start_payment
              THEN [slept EXCEPT ![l] = c.slept, !["payment"] = <<>>]
              ELSE [slept EXCEPT ![l] = c.slept]

LoopFrame ==
  /\ sent_now' = <<>>
  /\ UNCHANGED <<framerVars, command_queue, current_selection, task,
                 current_transaction_id, last_cancel_packet, ready, dbVars, txns,
                 gw_approved, dd_tx, dd_by_resp, reversals, n_mqtt, inv_written,
                 published, orphans, numVars>>

\* connect() ends its _connect_serial and goes on to _connect_payment_terminal
initial_pass(c, ok) ==
  LET r == connect_serial_pass(c, ok)
  IN [c |-> r, start_payment |-> r.pc = "returned"]

\* connect(): the monitor task is created, then _connect_serial is called
ConnectStart(ok) ==
  /\ loop_pc["initial"] = "none"
  /\ LET r == initial_pass(loop_call(LoopCtx("initial")), ok)
     IN /\ serial_connected' = r.c.serial_connected
        /\ reader' = r.c.reader
        /\ loop_pc' = [loop_pc EXCEPT !["initial"] = r.c.pc, !["monitor"] = "check",
                                      !["payment"] = IF r.start_payment THEN "attempt"
                                                     ELSE @]
        /\ loop_delay' = [loop_delay EXCEPT !["initial"] = r.c.delay]
        /\ slept' = [slept EXCEPT !["initial"] = r.c.slept]
  /\ LoopFrame
  /\ UNCHANGED <<esocket_connected, payVars, connected>>

\* _connect_serial of connect() wakes from its sleep, doubles the delay and
\* passes the loop again
InitialWake(ok) ==
  /\ loop_pc["initial"] = "sleeping"
  /\ ok \/ Len(slept["initial"]) < MaxFailures
  /\ LET c == LoopCtx("initial")
         r == initial_pass([c EXCEPT !.delay = next_delay(c.delay)], ok)
     IN LoopCommit("initial", r.c, r.start_payment, FALSE)
  /\ LoopFrame
  /\ UNCHANGED <<payVars, connected>>

\* _monitor_connections: after _connect_serial has returned or was not needed,
\* the check of the payment terminal and the sleep of 5 s
monitor_rest(c) == IF c.pc = "returned" THEN [c EXCEPT !.pc = "check"] ELSE c

\* _monitor_connections: one cycle from its top to the next suspension
MonitorCheck(ok) ==
  /\ loop_pc["monitor"] = "check"
  /\ ok \/ Len(slept["monitor"]) < MaxFailures
  /\ LET c0 == LoopCtx("monitor")
         \* lines 135-140: the reader is gone or at EOF
         c1 == IF c0.serial_connected /\ c0.reader # "open"
               THEN [c0 EXCEPT !.serial_connected = FALSE, !.reader = "none"]
               ELSE c0
         c2 == IF ~c1.serial_connected
               THEN connect_serial_pass(loop_call(c1), ok)
               ELSE [c1 EXCEPT !.pc = "returned"]
         lost == c2.pc = "returned" /\ payment_lost
     IN LoopCommit("monitor", monitor_rest(c2), lost, lost)
  /\ LoopFrame
  /\ UNCHANGED <<payVars, connected>>

\* _connect_serial of the monitor wakes from its sleep
MonitorWake(ok) ==
  /\ loop_pc["monitor"] = "sleeping"
  /\ ok \/ Len(slept["monitor"]) < MaxFailures
  /\ LET c == LoopCtx("monitor")
         r == connect_serial_pass([c EXCEPT !.delay = next_delay(c.delay)], ok)
         lost == r.pc = "returned" /\ payment_lost
     IN LoopCommit("monitor", monitor_rest(r), lost, lost)
  /\ LoopFrame
  /\ UNCHANGED <<payVars, connected>>

\* the read of the serial port ends: the reader is at EOF
ReaderEof ==
  /\ serial_connected /\ reader = "open"
  /\ reader' = "eof"
  /\ sent_now' = <<>>
  /\ UNCHANGED <<framerVars, linkVars, payVars, dbVars, txns, gw_approved, dd_tx,
                 dd_by_resp, reversals, n_mqtt, inv_written, brokerVars,
                 loop_pc, loop_delay, slept, numVars>>

\* _connect_payment_terminal: one pass of its while loop
PaymentAttempt(ok, answered, approve) ==
  /\ loop_pc["payment"] = "attempt"
  /\ (ok /\ answered) \/ Len(slept["payment"]) < MaxFailures
  /\ connect_payment_attempt(ok, answered, approve)
  /\ LET c == LoopCtx("payment")
         r == IF ok /\ answered THEN [loop_success(c) EXCEPT !.pc = "returned"]
              ELSE loop_sleep(c)
     IN /\ loop_pc' = [loop_pc EXCEPT !["payment"] = r.pc]
        /\ loop_delay' = [loop_delay EXCEPT !["payment"] = r.delay]
        /\ slept' = [slept EXCEPT !["payment"] = r.slept]
  /\ UNCHANGED <<reader, numVars>>

\* _connect_payment_terminal wakes from its sleep and doubles the delay
PaymentWake ==
  /\ loop_pc["payment"] = "sleeping"
  /\ loop_pc' = [loop_pc EXCEPT !["payment"] = "attempt"]
  /\ loop_delay' = [loop_delay EXCEPT !["payment"] = next_delay(@)]
  /\ sent_now' = <<>>
  /\ UNCHANGED <<framerVars, linkVars, payVars, dbVars, txns, gw_approved, dd_tx,
                 dd_by_resp, reversals, n_mqtt, inv_written, brokerVars, reader, slept,
                 numVars>>

\* ESocketClient._send_message fails: is_connected = False
PaymentLinkLost ==
  /\ esocket_connected /\ es.is_connected
  /\ es' = [es EXCEPT !.is_connected = FALSE]
  /\ sent_now' = <<>>
  /\ UNCHANGED <<framerVars, linkVars, gw_pending, tcp_in, dbVars, txns, gw_approved,
                 dd_tx, dd_by_resp, reversals, n_mqtt, inv_written, brokerVars,
                 connVars, numVars>>

\* MQTTBroker.start(): the task of _monitor_connection is created
MqttStart ==
  /\ loop_pc["mqtt"] = "none"
  /\ loop_pc' = [loop_pc EXCEPT !["mqtt"] = "check"]
  /\ loop_delay' = [loop_delay EXCEPT !["mqtt"] = reconnect_delay]
  /\ sent_now' = <<>>
  /\ UNCHANGED <<framerVars, linkVars, payVars, dbVars, txns, gw_approved, dd_tx,
                 dd_by_resp, reversals, n_mqtt, inv_written, brokerVars, reader, slept,
                 numVars>>

\* _monitor_connection, the top of its loop: sleep(delay) when not connected,
\* else the reset of the delay and the sleep of 5 s
MqttCheck ==
  /\ loop_pc["mqtt"] = "check"
  /\ LET c == LoopCtx("mqtt")
         r == IF ~connected THEN loop_sleep(c)
              ELSE loop_success(c)
     IN /\ r # c
        /\ loop_pc' = [loop_pc EXCEPT !["mqtt"] = r.pc]
        /\ loop_delay' = [loop_delay EXCEPT !["mqtt"] = r.delay]
        /\ slept' = [slept EXCEPT !["mqtt"] = r.slept]
  /\ sent_now' = <<>>
  /\ UNCHANGED <<framerVars, linkVars, payVars, dbVars, txns, gw_approved, dd_tx,
                 dd_by_resp, reversals, n_mqtt, inv_written, brokerVars, reader,
                 numVars>>

\* _monitor_connection after its sleep: _connect_internal(). ok: client.connect
\* does not raise
MqttWake(ok) ==
  /\ loop_pc["mqtt"] = "sleeping"
  /\ ok \/ Len(slept["mqtt"]) < MaxFailures
  /\ LET c == LoopCtx("mqtt")
         r == IF ok THEN loop_success(c) ELSE [c EXCEPT !.delay = next_delay(c.delay)]
     IN /\ loop_pc' = [loop_pc EXCEPT !["mqtt"] = "check"]
        /\ loop_delay' = [loop_delay EXCEPT !["mqtt"] = r.delay]
        /\ slept' = [slept EXCEPT !["mqtt"] = r.slept]
  /\ sent_now' = <<>>
  /\ UNCHANGED <<framerVars, linkVars, payVars, dbVars, txns, gw_approved, dd_tx,
                 dd_by_resp, reversals, n_mqtt, inv_written, brokerVars, reader,
                 numVars>>

InitConnect ==
  /\ FramerIdle
  /\ serial_connected = FALSE
  /\ command_queue = <<>>
  /\ current_selection = None
  /\ task = NoTask
  /\ current_transaction_id = None
  /\ last_cancel_packet = None
  /\ esocket_connected = FALSE
  /\ ready = <<>>
  /\ es = [is_connected |-> FALSE, writer |-> FALSE, terminal_id |-> None]
  /\ gw_pending = <<>>
  /\ tcp_in = <<>>
  /\ Prices = InitPrices
  /\ Sales = <<>>
  /\ sent_now = <<>>
  /\ txns = <<>>
  /\ gw_approved = {}
  /\ dd_tx = {}
  /\ dd_by_resp = {}
  /\ reversals = {}
  /\ n_mqtt = 0
  /\ inv_written = {}
  /\ connected = FALSE
  /\ published = <<>>
  /\ orphans = <<>>
  /\ LoopsInit
  /\ NumbersInit

NextConnect ==
  \/ \E ok \in BOOLEAN : ConnectStart(ok)
  \/ \E ok \in BOOLEAN : InitialWake(ok)
  \/ \E ok \in BOOLEAN : MonitorCheck(ok)
  \/ \E ok \in BOOLEAN : MonitorWake(ok)
  \/ SerialDown
  \/ ReaderEof
  \/ \E ok \in BOOLEAN, answered \in BOOLEAN, approve \in BOOLEAN :
       PaymentAttempt(ok, answered, approve)
  \/ PaymentWake
  \/ PaymentLinkLost
  \/ MqttStart
  \/ MqttCheck
  \/ \E ok \in BOOLEAN : MqttWake(ok)
  \/ OnConnect
  \/ OnDisconnect

SpecConnect == InitConnect /\ [][NextConnect]_vars

(***************************************************************************)
(* The sequence counter and the transaction ids (SpecNumbers).             *)
(***************************************************************************)
\* packets one handler transmits: 1..MaxSends
MaxSends == 2

\* sequence bytes of the packets the VMC sends
SeqInputs == {0, 1, 2, 254, 255}

\* readings of int(time.time())
ClockSamples == {0, 99999, 100000, 899999, 900000, 999999, 1000000, 1762214400}

\* create_packet's update of the counter
next_packet_number(pn) == (pn % 255) + 1

\* the sequence bytes of n packets built one after the other, the first with pn
RECURSIVE built_seqs(_, _)
built_seqs(pn, n) ==
  IF n = 0 THEN <<>>
  ELSE <<create_packet_bytes(ACK, <<>>, pn)[5]>> \o built_seqs(next_packet_number(pn), n - 1)

RECURSIVE advance(_, _)
advance(pn, n) == IF n = 0 THEN pn ELSE advance(next_packet_number(pn), n - 1)

\* str(n) of a non-negative integer: its decimal digits, most significant first
RECURSIVE str(_)
str(n) == IF n < 10 THEN <<n>> ELSE Append(str(n \div 10), n % 10)

\* str.zfill(width)
zfill(s, width) ==
  IF Len(s) >= width THEN s ELSE [i \in 1..(width - Len(s)) |-> 0] \o s

\* the TransactionId of a reversal: str(int(time.time()) % 1000000).zfill(6)
ReversalTransactionId(now) == zfill(str(now % 1000000), 6)

NumbersFrame ==
  /\ sent_now' = <<>>
  /\ UNCHANGED <<framerVars, brokerVars, connVars, serial_connected, command_queue,
                 current_selection, task, current_transaction_id,
                 last_cancel_packet, esocket_connected, ready, payVars, dbVars,
                 txns, gw_approved, dd_tx, dd_by_resp, reversals,
                 n_mqtt, inv_written>>

\* _send_command outside a packet handler (the ACK of a read timeout,
\* _execute_dispense, reset_machine_state): one packet is built
SendPacket ==
  /\ serial_connected
  /\ seq_sent' = built_seqs(packet_number, 1)
  /\ packet_number' = advance(packet_number, 1)
  /\ UNCHANGED generated
  /\ NumbersFrame

\* _handle_packet for a packet whose sequence byte is seq: the counter takes
\* seq, then the handler transmits its packets
HandlePacketSeq(seq, sends) ==
  /\ serial_connected
  /\ seq_sent' = built_seqs(seq, sends)
  /\ packet_number' = advance(seq, sends)
  /\ UNCHANGED generated
  /\ NumbersFrame

\* _process_payment generates the TransactionId of a purchase
GeneratePurchaseId(now) ==
  /\ generated' = [kind |-> "purchase", id |-> str(PurchaseTransactionId(now))]
  /\ UNCHANGED <<packet_number, seq_sent>>
  /\ NumbersFrame

\* _handle_dispensing_status generates the TransactionId of a reversal
GenerateReversalId(now) ==
  /\ generated' = [kind |-> "reversal", id |-> ReversalTransactionId(now)]
  /\ UNCHANGED <<packet_number, seq_sent>>
  /\ NumbersFrame

NextNumbers ==
  \/ SerialUp
  \/ SerialDown
  \/ SendPacket
  \/ \E seq \in SeqInputs, sends \in 1..MaxSends : HandlePacketSeq(seq, sends)
  \/ \E now \in ClockSamples : GeneratePurchaseId(now)
  \/ \E now \in ClockSamples : GenerateReversalId(now)

SpecNumbers == Init /\ [][NextNumbers]_vars

(***************************************************************************)
(* The specifications.                                                     *)
(***************************************************************************)
Next ==
  \/ SerialUp
  \/ SerialDown
  \/ VmcPoll
  \/ \E n \in SeqBytes, s \in {0} \cup Selections, now \in ClockValues :
       VmcSelectCancel(n, s, now)
  \/ \E st \in StatusValues, now \in ClockValues : VmcDispensingStatus(st, now)
  \/ \E cmd \in OtherCommands, payload_len \in PayloadLengths :
       VmcPacket(cmd, payload_len)
  \/ \E ok \in BOOLEAN, answered \in BOOLEAN, approve \in BOOLEAN :
       ConnectPaymentTerminal(ok, answered, approve)
  \/ MonitorPayment
  \/ \E stale \in BOOLEAN, ok \in BOOLEAN : TaskStep(stale, ok)
  \/ \E approve \in BOOLEAN, xml \in BOOLEAN : GwRespond(approve, xml)
  \/ TaskRead
  \/ TaskTimeout
  \/ PaymentCallback
  \/ RunQueueCommand
  \/ RunCancelSelection
  \/ \E s \in Selections, p \in PriceValues : MqttSetPrice(s, p)
  \/ \E s \in Selections, i \in InventoryValues : MqttSetInventory(s, i)

Spec == Init /\ [][Next]_vars

InitFramer == FramerInit /\ MainInit

NextFramer == FramerNext /\ UNCHANGED <<mainVars, brokerVars, connVars, numVars>>

SpecFramer == InitFramer /\ [][NextFramer]_vars

(***************************************************************************)
(* The framer on one packet built by create_packet: its bytes reach the    *)
(* decoder in every fragmentation.                                         *)
(***************************************************************************)
\* commands, packet numbers and data of the packets: the ends of the ranges, the
\* bytes of STX in every field, data of every length up to MaxData
RoundTripCmds == {0, SELECT_CANCEL, 250, 255}
RoundTripSeqs == {1, 251, 255}
RoundTripDatas ==
  {d \in UNION {[1..n -> {0, 250, 251}] : n \in 0..MaxData} : TRUE}

\* _handle_packet: cmd = packet[2], payload = packet[4:-1], whose first byte is
\* the packet number
decode_packet(packet) ==
  [cmd |-> packet[3], seq |-> packet[5], data |-> SubSeq(packet, 6, Len(packet) - 1)]

InitRoundTrip ==
  /\ \E c \in RoundTripCmds, pn \in RoundTripSeqs, d \in RoundTripDatas :
       sent_frames = <<[kind |-> "good", bytes |-> create_packet_bytes(c, d, pn),
                        cmd |-> c, seq |-> pn, data |-> d]>>
  /\ stream = Concat(sent_frames)
  /\ recv_buffer = <<>>
  /\ dispatched = <<>>
  /\ MainInit

SpecRoundTrip == InitRoundTrip /\ [][NextFramer]_vars

(***************************************************************************)
(* The same program under the scheduling asyncio guarantees: a task or a   *)
(* callback that is ready is run, and a read on the socket ends, with the  *)
(* response or with the 10 s timeout of wait_for.                          *)
(***************************************************************************)
EventLoopStep ==
  \/ \E stale \in BOOLEAN, ok \in BOOLEAN : TaskStep(stale, ok)
  \/ PaymentCallback
  \/ RunQueueCommand
  \/ RunCancelSelection

SocketWait == TaskRead \/ TaskTimeout

\* the steps of a purchase: every step of Next but the MQTT requests, which take
\* no part in a purchase
NextPurchase ==
  \/ SerialUp
  \/ SerialDown
  \/ VmcPoll
  \/ \E n \in SeqBytes, s \in {0} \cup Selections, now \in ClockValues :
       VmcSelectCancel(n, s, now)
  \/ \E st \in StatusValues, now \in ClockValues : VmcDispensingStatus(st, now)
  \/ \E cmd \in OtherCommands, payload_len \in PayloadLengths :
       VmcPacket(cmd, payload_len)
  \/ \E ok \in BOOLEAN, answered \in BOOLEAN, approve \in BOOLEAN :
       ConnectPaymentTerminal(ok, answered, approve)
  \/ MonitorPayment
  \/ \E stale \in BOOLEAN, ok \in BOOLEAN : TaskStep(stale, ok)
  \/ \E approve \in BOOLEAN, xml \in BOOLEAN : GwRespond(approve, xml)
  \/ TaskRead
  \/ TaskTimeout
  \/ PaymentCallback
  \/ RunQueueCommand
  \/ RunCancelSelection

SpecLive ==
  Init /\ [][NextPurchase]_vars /\ WF_vars(EventLoopStep) /\ WF_vars(SocketWait)

(***************************************************************************)
(* The MQTT router on its own: the requests in every targeting mode, the   *)
(* MQTT connection and the serial link going up and down.                  *)
(***************************************************************************)
InitBroker ==
  /\ FramerIdle
  /\ serial_connected = FALSE
  /\ command_queue = <<>>
  /\ current_selection = None
  /\ task = NoTask
  /\ current_transaction_id = None
  /\ last_cancel_packet = None
  /\ esocket_connected = FALSE
  /\ ready = <<>>
  /\ es = [is_connected |-> FALSE, writer |-> FALSE, terminal_id |-> None]
  /\ gw_pending = <<>>
  /\ tcp_in = <<>>
  /\ Prices = InitCatalogue
  /\ Sales = <<>>
  /\ sent_now = <<>>
  /\ txns = <<>>
  /\ gw_approved = {}
  /\ dd_tx = {}
  /\ dd_by_resp = {}
  /\ reversals = {}
  /\ n_mqtt = 0
  /\ inv_written = {}
  /\ connected = FALSE
  /\ published = <<>>
  /\ orphans = <<>>
  /\ LoopsInit
  /\ NumbersInit

NextBroker ==
  \/ SerialUp
  \/ SerialDown
  \/ OnConnect
  \/ OnDisconnect
  \/ \E payload \in Payloads(PriceInputs) : HandlePriceUpdate(payload)
  \/ \E payload \in Payloads(ByteInputs) : HandleInventoryUpdate(payload)
  \/ \E payload \in Payloads(ByteInputs) : HandleCapacityUpdate(payload)
  \/ HandleGetPrices

SpecBroker == InitBroker /\ [][NextBroker]_vars

\* a frame that starts with STX and fails its check (or is cut short) is directly
\* followed by a well-formed frame
BadThenGood(i) ==
  /\ i \in 1..(Len(sent_frames) - 1)
  /\ sent_frames[i].kind \in {"corrupt", "runt"}
  /\ sent_frames[i + 1].kind = "good"

Delivered(p) == \E j \in 1..Len(dispatched) : dispatched[j] = p

\* C1: a corrupted or runt frame does not stall a well-formed frame that follows
\* it: once every byte of the stream has been read and processed, the well-formed
\* frame has been handed to the packet dispatcher.
C1_BadFrameDoesNotStall ==
  \A i \in 1..MaxFrames :
    (BadThenGood(i) /\ stream = <<>>) => Delivered(sent_frames[i + 1].bytes)

\* the case of C1: a bad frame and the good frame after it have been read
C1_Witness == \E i \in 1..MaxFrames : BadThenGood(i) /\ stream = <<>>

(***************************************************************************)
(* Properties of Spec.                                                     *)
(***************************************************************************)
HasCmd(q, cmd) == \E k \in 1..Len(q) : q[k].cmd = cmd

\* the DIRECT_DRIVE of purchase i is still on its way to the line
PendingDD(i) ==
  \/ \E k \in 1..Len(command_queue) :
       command_queue[k].cmd = DIRECT_DRIVE /\ command_queue[k].t = i
  \/ \E k \in 1..Len(ready) :
       ready[k].k = "queue_command" /\ ready[k].cmd = DIRECT_DRIVE /\ ready[k].t = i

\* a reversal request whose OriginalTransactionId is the id of purchase i
Reversed(i) == \E r \in reversals : r.orig = txns[i].tid

\* nothing is in progress that could still act on a purchase
Quiescent ==
  /\ task.st = "none"
  /\ ready = <<>>
  /\ gw_pending = <<>>
  /\ tcp_in = <<>>
  /\ ~HasCmd(command_queue, DIRECT_DRIVE)

\* purchase i is live: accepted and without its terminal event
Live(i) ==
  \/ txns[i].phase = "paying"
  \/ txns[i].phase = "approved" /\ (i \in dd_tx \/ PendingDD(i))

\* the coordinator is idle
Idle == task.st = "none" /\ ready = <<>> /\ current_selection = None

\* every purchase has had its terminal event
AllEnded ==
  \A i \in 1..Len(txns) : txns[i].phase \in {"declined", "cancelled", "failed", "dispensed"}

\* C2: an approved purchase is never silently dropped: once nothing is in
\* progress any more (no purchase task, no scheduled callback or task, no request
\* or response in flight, no DIRECT_DRIVE in the command queue), every purchase
\* the gateway approved has had its DIRECT_DRIVE transmitted to the VMC or a
\* reversal sent for it.
C2_ApprovedNeverDropped ==
  Quiescent => \A i \in gw_approved : i \in dd_tx \/ Reversed(i)

\* the case of C2: the gateway approved a purchase and everything has settled
C2_Witness == Quiescent /\ gw_approved # {}

\* C3: at most one transaction is live at any time; a non-zero SELECT received
\* while a transaction is live (paying, or approved with its dispense outcome
\* outstanding) starts no second purchase.
C3_AtMostOneLive ==
  Cardinality({i \in 1..Len(txns) : Live(i)}) <= 1

\* the case of C3: a purchase is approved and its dispense outcome is outstanding
C3_Witness == \E i \in 1..Len(txns) : txns[i].phase = "approved" /\ Live(i)

\* C4: the gateway response to a purchase that SELECT_CANCEL(0) cancelled is
\* discarded: it makes no DIRECT_DRIVE be enqueued and no inventory be
\* decremented, neither for the cancelled purchase nor as the answer to a later
\* one.
C4_CancelledResponseDiscarded ==
  dd_by_resp \cap InPhase(txns, "cancelled") = {}

\* the case of C4: a purchase was cancelled and the gateway approved it
C4_Witness == gw_approved \cap InPhase(txns, "cancelled") # {}

\* C5: when a purchase is declined while the link is up, the handling of the
\* decline leaves a SELECT_CANCEL(0) pending in the command queue, to be
\* transmitted on a following POLL.
C5_DeclineQueuesCancel ==
  [][(RunCancelSelection /\ Head(ready).why = "decline" /\ serial_connected)
       => \E k \in 1..Len(command_queue') :
            /\ command_queue'[k].cmd = SELECT_CANCEL
            /\ command_queue'[k].data = to_bytes2(0)]_vars

\* the case of C5: a decline has been handled with the link up
C5_Witness ==
  /\ InPhase(txns, "declined") # {}
  /\ serial_connected
  /\ Idle
  /\ sent_now = <<[cmd |-> ACK, data |-> <<>>, t |-> 0]>>

\* C6: for every approved purchase whose dispense ended with an error status
\* (0x03, 0x04, 0x06, 0x07, 0xFF), a reversal request has been sent whose
\* OriginalTransactionId is the TransactionId of its purchase request.
C6_DispenseErrorReversed ==
  \A i \in InPhase(txns, "failed") : Reversed(i)

\* the case of C6: a dispense ended with an error status
C6_Witness == InPhase(txns, "failed") # {}

\* every dispense that was decided has had its outcome reported by the VMC
AllReported == dd_by_resp \subseteq (InPhase(txns, "dispensed") \cup InPhase(txns, "failed"))

\* C7: inventory decreases only by a dispense-success status or an MQTT inventory
\* write: when every purchase has ended, every decided dispense has had its
\* outcome reported and no MQTT request wrote an inventory, no selection has lost
\* more units than dispenses succeeded.
C7_InventoryOnlyBySuccess ==
  (Idle /\ AllEnded /\ AllReported /\ inv_written = {}) =>
    \A s \in Selections :
      GetOr0(InitPrices[s].inventory) - GetOr0(Prices[s].inventory)
        <= Cardinality(InPhase(txns, "dispensed"))

\* the case of C7: a purchase ended in decline, cancel or dispense error
C7_Witness ==
  /\ Idle /\ AllEnded /\ AllReported /\ inv_written = {}
  /\ \E i \in 1..Len(txns) : txns[i].phase \in {"declined", "cancelled", "failed"}

\* the status values of the sales table's records of purchase i, in order
SaleStatuses(i) ==
  LET R == SelectSeq(Sales, LAMBDA r : r.txn = i)
  IN [k \in 1..Len(R) |-> R[k].status]

SaleFamilies ==
  {<<"declined">>, <<"approved", "success">>, <<"approved", "error">>,
   <<"approved", "error", "reversed">>}

\* C8: when the coordinator is idle, each transaction that was declined, was
\* dispensed or failed to dispense has written exactly one sale-record family:
\* (declined), (approved, success) or (approved, error[, reversed]).
C8_OneSaleFamily ==
  Idle => \A i \in 1..Len(txns) :
            txns[i].phase \in {"declined", "dispensed", "failed"}
              => SaleStatuses(i) \in SaleFamilies

\* the case of C8: a sale has completed with a dispense and the coordinator is idle
C8_Witness == Idle /\ InPhase(txns, "dispensed") # {}

\* C9: while the link is up, the handling of a POLL transmits exactly one packet:
\* the oldest queued command, which leaves the queue, or an ACK when the queue is
\* empty.
C9_OnePacketPerPoll ==
  [][VmcPoll =>
       /\ Len(sent_now') = 1
       /\ IF command_queue # <<>>
          THEN /\ sent_now'[1] = Head(command_queue)
               /\ command_queue' = Tail(command_queue)
          ELSE /\ sent_now'[1] = [cmd |-> ACK, data |-> <<>>, t |-> 0]
               /\ command_queue' = <<>>]_vars

\* the case of C9: a POLL has been answered with a queued command while more wait
C9_Witness ==
  /\ Len(sent_now) = 1
  /\ sent_now[1].cmd = DIRECT_DRIVE
  /\ command_queue # <<>>

\* C10: a DIRECT_DRIVE is transmitted before the non-dispensing commands queued
\* ahead of it: a POLL handled while a DIRECT_DRIVE is queued is not answered
\* with a SET_PRICE or a SET_INVENTORY.
C10_DirectDriveFirst ==
  [][(VmcPoll /\ HasCmd(command_queue, DIRECT_DRIVE))
       => sent_now'[1].cmd \notin {SET_PRICE, SET_INVENTORY}]_vars

\* the case of C10: a SET_PRICE is queued ahead of a DIRECT_DRIVE
C10_Witness ==
  /\ command_queue # <<>>
  /\ Head(command_queue).cmd = SET_PRICE
  /\ HasCmd(command_queue, DIRECT_DRIVE)

OneAck == <<[cmd |-> ACK, data |-> <<>>, t |-> 0]>>

\* C11: a non-zero SELECT handled while a purchase is being paid for is ignored:
\* apart from the ACK it leaves the command queue, the current selection, the
\* current transaction (its task and id) and the catalogue as they were.
C11_SelectWhilePayingIgnored ==
  [][\A n \in SeqBytes, s \in Selections, now \in ClockValues :
       (VmcSelectCancel(n, s, now) /\ task.st \in {"created", "sent"})
         => /\ sent_now' = OneAck
            /\ command_queue' = command_queue
            /\ current_selection' = current_selection
            /\ task' = task
            /\ current_transaction_id' = current_transaction_id
            /\ txns' = txns
            /\ Prices' = Prices]_vars

\* the case of C11: a packet was answered with an ACK while a purchase request is
\* outstanding and a configuration command had been queued
C11_Witness ==
  /\ task.st = "sent"
  /\ sent_now = OneAck
  /\ n_mqtt > 0

NotForSale(selection) ==
  ~PricesGet(selection).present \/ GetOr0(PricesGet(selection).price) <= 0

\* C13: a non-zero SELECT accepted in idle for a selection that has no catalogue
\* entry, or whose price is zero or negative, is rejected before payment: no
\* purchase is started, nothing is written to the gateway, no DIRECT_DRIVE is
\* scheduled or queued, and the coordinator is idle afterwards.
C13_CatalogueMissRejected ==
  [][\A n \in SeqBytes, s \in Selections, now \in ClockValues :
       (/\ last_cancel_packet # n
        /\ task.st = "none"
        /\ NotForSale(s)
        /\ VmcSelectCancel(n, s, now))
         => /\ txns' = txns
            /\ task' = NoTask
            /\ gw_pending' = gw_pending
            /\ ready' = ready
            /\ ~HasCmd(command_queue', DIRECT_DRIVE)
            /\ current_selection' = None
            /\ current_transaction_id' = None]_vars

\* the case of C13: _process_payment has rejected a selection at the catalogue
\* lookup with the terminal connected (the ACKs of reset_machine_state, of the
\* finally clause and of the packet handler)
C13_Witness ==
  /\ Len(sent_now) = 3
  /\ esocket_connected
  /\ task.st = "none"
  /\ current_selection = None

\* the PURCHASE request of the pending purchase task
PurchaseRequest == [txn |-> task.txn, tid |-> task.tid, amount |-> task.amount]

\* C14: a non-zero SELECT for selection s accepted in idle, with the payment
\* terminal connected and a catalogue price p > 0, creates one purchase task for
\* the amount p, and the task, when it runs with the gateway reachable, writes
\* exactly one PURCHASE request, whose TransactionAmount is p.
C14_OnePurchaseForPrice ==
  [][/\ \A n \in SeqBytes, s \in Selections, now \in ClockValues :
          (/\ VmcSelectCancel(n, s, now)
           /\ last_cancel_packet # n
           /\ task.st = "none"
           /\ esocket_connected
           /\ ~NotForSale(s))
            => /\ task'.st = "created"
               /\ task'.amount = Prices[s].price
               /\ ready' = Append(ready, TaskStepEntry)
     /\ \A stale \in BOOLEAN :
          TaskStep(stale, TRUE)
            => /\ task'.st = "sent"
               /\ gw_pending' # <<>>
               /\ gw_pending'[Len(gw_pending')] = PurchaseRequest
               /\ Len(SelectSeq(gw_pending', LAMBDA r : r.txn = task.txn)) = 1]_vars

\* the case of C14: the purchase task of an accepted SELECT has run
C14_Witness ==
  /\ task.st \in {"sent", "done"}
  /\ esocket_connected
  /\ txns[task.txn].phase = "paying"

\* the DIRECT_DRIVE commands among scheduled queue_command tasks
ScheduledDD(rdy) ==
  SelectSeq(rdy, LAMBDA e : e.k = "queue_command" /\ e.cmd = DIRECT_DRIVE)

\* C15: when the purchase for selection s is approved while the link is up and s
\* is in the catalogue (and the purchase was not cancelled), payment_callback
\* schedules exactly one DIRECT_DRIVE, with payload drop_sensor 1, elevator 1 and
\* s as two big-endian bytes.
C15_OneDirectDriveForSelection ==
  [][(/\ PaymentCallback
      /\ task.result = "approve"
      /\ serial_connected
      /\ txns[task.txn].phase # "cancelled"
      /\ PricesGet(txns[task.txn].sel).present)
       => /\ Len(ScheduledDD(ready')) = Len(ScheduledDD(Tail(ready))) + 1
          /\ ready'[Len(Tail(ready)) + 1].cmd = DIRECT_DRIVE
          /\ ready'[Len(Tail(ready)) + 1].data
               = <<1, 1, txns[task.txn].sel \div 256, txns[task.txn].sel % 256>>]_vars

\* the case of C15: an approval has scheduled a DIRECT_DRIVE
C15_Witness == ScheduledDD(ready) # <<>>

\* every catalogue entry that holds an inventory holds a non-negative one
InventoryNonNegative ==
  \A s \in Selections :
     Prices[s].present /\ Prices[s].inventory # None => Prices[s].inventory >= 0

\* max(0, previous inventory - 1), a missing inventory counting as 0
Decremented(previous) == IF previous = None \/ previous = 0 THEN 0 ELSE previous - 1

\* C16: the approval that commands the dispense of a selection persists
\* max(0, previous inventory - 1) for that selection and touches no other cell,
\* the dispense-success status that ends the sale leaves the catalogue as it is,
\* and in every reachable state every inventory of the catalogue is non-negative.
C16_InventorySaturates ==
  /\ []InventoryNonNegative
  /\ [][/\ (PaymentCallback /\ task.result = "approve"
              /\ can_dispense(PricesGet(current_selection)))
          => Prices' = [Prices EXCEPT ![current_selection].inventory = Decremented(@)]
        /\ \A st \in StatusSuccess, now \in ClockValues :
             VmcDispensingStatus(st, now) => Prices' = Prices]_vars

\* the case of C16: a sale of a selection with no stock left ended with a
\* dispense-success status, and its inventory is 0
C16_Witness ==
  \E i \in InPhase(txns, "dispensed") :
     /\ txns[i].sel = 2 /\ Prices[2].inventory = 0
     /\ 2 \notin inv_written

\* the DIRECT_DRIVE commands of purchase i among the packets of a step
SentDD(out, i) == {k \in 1..Len(out) : out[k].cmd = DIRECT_DRIVE /\ out[k].t = i}

\* C17: the handling of a dispense-error status ends with no current selection,
\* no current transaction id and an empty command queue, whatever the reversal
\* attempt does, and from then on no DIRECT_DRIVE of the failed purchase is
\* queued, scheduled or transmitted.
C17_DispenseErrorToIdle ==
  [][/\ \A st \in StatusError \cap StatusValues, now \in ClockValues :
          VmcDispensingStatus(st, now)
            => /\ current_selection' = None
               /\ current_transaction_id' = None
               /\ command_queue' = <<>>
               /\ InPhase(txns', "failed") # InPhase(txns, "failed")
     /\ \A i \in InPhase(txns', "failed") :
          ~PendingDD(i)' /\ SentDD(sent_now', i) = {}]_vars

\* the case of C17: a dispense-error status has just been handled
C17_Witness ==
  /\ InPhase(txns, "failed") # {}
  /\ sent_now = OneAck \o OneAck
  /\ current_transaction_id = None /\ command_queue = <<>>

\* an ACK is among the packets of a step
AckSent(out) == \E k \in 1..Len(out) : out[k].cmd = ACK

\* C18: every error exit to idle ends in cancel_selection, which leaves the
\* command queue empty and, the link being up, transmits an ACK: in the SELECT
\* handler for a catalogue miss and for a payment terminal that is not connected,
\* in the DISPENSING_STATUS handler for a dispense error, and in the
\* cancel_selection task that the payment callback creates for a decline or a
\* payment error.
C18_ErrorExitDrainsQueue ==
  [][/\ \A n \in SeqBytes, s \in Selections, now \in ClockValues :
          (/\ last_cancel_packet # n
           /\ task.st = "none"
           /\ (~esocket_connected \/ NotForSale(s))
           /\ VmcSelectCancel(n, s, now))
            => command_queue' = <<>> /\ AckSent(sent_now')
     /\ \A st \in StatusError \cap StatusValues, now \in ClockValues :
          VmcDispensingStatus(st, now) => command_queue' = <<>> /\ AckSent(sent_now')
     /\ (task.result # "approve" /\ PaymentCallback)
          => /\ Len(ready') = Len(ready)
             /\ ready'[Len(ready')].k = "cancel_selection"
     /\ RunCancelSelection
          => /\ command_queue' = <<>>
             /\ serial_connected => sent_now' = OneAck]_vars

\* the case of C18: the cleanup after a decline has emptied a queue that held a
\* command, and has transmitted its ACK
C18_Witness ==
  /\ InPhase(txns, "declined") # {}
  /\ n_mqtt > 0
  /\ Idle /\ command_queue = <<>> /\ sent_now = OneAck

\* C19: a purchase whose request gets no response ends: the timeout fails the
\* request, marks the payment client disconnected and schedules the callback;
\* the callback of a failed request ends the purchase as declined, schedules no
\* DIRECT_DRIVE and drops the task, so that the next SELECT is served; and under
\* the scheduling of the event loop a purchase task never stays for ever.
C19_TimeoutEndsPurchase ==
  /\ [][/\ TaskTimeout
             => /\ task'.st = "done" /\ task'.result = "error"
                /\ ~es'.is_connected
                /\ ready' = Append(ready, CallbackEntry)
        /\ (PaymentCallback /\ task.result = "error")
             => /\ ScheduledDD(ready') = ScheduledDD(Tail(ready))
                /\ txns[task.txn].phase = "paying" => txns'[task.txn].phase = "declined"
                /\ dd_by_resp' = dd_by_resp
                /\ task' = NoTask]_vars
  /\ (task.st # "none") ~> (task.st = "none")

\* the case of C19: the first request is still unanswered at the gateway, its
\* purchase ended as declined with the client disconnected, and a later SELECT
\* has started a second purchase
C19_Witness ==
  /\ Len(txns) = 2
  /\ txns[1].phase = "declined" /\ txns[2].phase = "paying"
  /\ \E k \in 1..Len(gw_pending) : gw_pending[k].txn = 1
  /\ ~es.is_connected
  /\ dd_by_resp = {} /\ task.st = "created"

\* C20: reading a response ends the purchase as approved if and only if the body
\* holds ActionCode="APPROVE", and the success flag the payment client returns
\* for that response is true exactly in that case.
C20_ApprovedIffActionCode ==
  [][TaskRead
       => /\ (task'.result = "approve") <=> Head(tcp_in).approve
          /\ parse_response(Head(tcp_in)).success <=> Head(tcp_in).approve]_vars

\* the case of C20: the task has read the response to its own request and holds
\* an approval
C20_Witness == task.st = "done" /\ task.result = "approve" /\ task.rtxn = task.txn

\* the last message published
LastPublished == published[Len(published)]

\* a set_price payload that addresses all selections with a price that can be
\* encoded
PriceForAll(payload) ==
  /\ payload.all /\ payload.selection = None /\ payload.tray = None
  /\ CanEncode(payload.value, 4)

\* the prices a list of get_prices shows for selection s
ListedPrices(list, s) == {e.price : e \in {x \in list : x.selection = s}}

\* C21: a set_price for all selections with price P, handled while MQTT is
\* connected, leaves every selection 1..100 with a document whose price is P,
\* also the selections that had none; and a get_prices publishes, for every
\* selection, the price its document holds, so that a get_prices that follows
\* shows P for every selection of 1..100.
C21_SetAllThenGetPrices ==
  [][/\ \A payload \in Payloads(PriceInputs) :
          (connected /\ PriceForAll(payload) /\ HandlePriceUpdate(payload))
            => \A s \in AllSelections :
                  Prices'[s].present /\ Prices'[s].price = payload.value
     /\ (connected /\ HandleGetPrices)
          => /\ Len(published') = Len(published) + 1
             /\ published'[Len(published')].topic = "prices"
             /\ \A s \in AllSelections :
                  Prices[s].present
                    => ListedPrices(published'[Len(published')].prices, s)
                         = {Prices[s].price}]_vars

\* the case of C21: a get_prices after a set_price for all has published the
\* price 200 for every selection, and selection 100 had no document before
C21_Witness ==
  /\ published # <<>>
  /\ LastPublished.topic = "prices"
  /\ ~InitCatalogue[100].present
  /\ \A s \in AllSelections : ListedPrices(LastPublished.prices, s) = {200}

\* a set_price payload that addresses one tray of 0..9 with a price that can be
\* encoded
PriceForTray(payload) ==
  /\ payload.selection = None
  /\ payload.tray # None /\ 0 <= payload.tray /\ payload.tray <= 9
  /\ CanEncode(payload.value, 4)

\* C22: a set_price for tray t of 0..9 with a valid price P, handled while MQTT
\* and the serial link are up, sets the price of the ten selections 10t+1..10t+10
\* to P and changes nothing else in the catalogue, enqueues one SET_PRICE whose
\* data are 1000+t as two big-endian bytes and P as four, and publishes one
\* response on price_update_status with success true.
C22_TrayPriceUpdate ==
  [][\A payload \in Payloads(PriceInputs) :
       (/\ connected /\ serial_connected /\ PriceForTray(payload)
        /\ HandlePriceUpdate(payload))
         => LET t == payload.tray
                P == payload.value
            IN /\ \A s \in CatalogueKeys :
                    IF 10 * t + 1 <= s /\ s <= 10 * t + 10
                    THEN Prices'[s] = [Prices[s] EXCEPT !.present = TRUE, !.price = P]
                    ELSE Prices'[s] = Prices[s]
               /\ orphans' = orphans
               /\ command_queue' =
                    Append(command_queue,
                           [cmd |-> SET_PRICE, t |-> 0,
                            data |-> <<(1000 + t) \div 256, (1000 + t) % 256,
                                       P \div 16777216, (P \div 65536) % 256,
                                       (P \div 256) % 256, P % 256>>])
               /\ published' =
                    Append(published, [topic |-> "price_update_status",
                                       success |-> TRUE, error |-> FALSE,
                                       prices |-> {}, results |-> 1])]_vars

\* the case of C22: tray 3 was priced at 200 with the link up; selections 36..40
\* got their documents by it
C22_Witness ==
  /\ published # <<>>
  /\ LastPublished.topic = "price_update_status" /\ LastPublished.success
  /\ \A s \in 31..40 : Prices[s].present /\ Prices[s].price = 200
  /\ Prices[30].price = 150 /\ ~Prices[41].present
  /\ command_queue # <<>>
  /\ command_queue[Len(command_queue)].data = <<3, 235, 0, 0, 0, 200>>

\* an invalid request: the value is missing or out of range (length: the bytes
\* of its encoding), the selection it names is outside 1..100, or the tray it
\* addresses is outside 0..9
InvalidRequest(payload, length) ==
  \/ ~CanEncode(payload.value, length)
  \/ payload.selection # None
       /\ ~(1 <= payload.selection /\ payload.selection <= MaxSelection)
  \/ payload.selection = None /\ payload.tray # None
       /\ ~(0 <= payload.tray /\ payload.tray <= 9)

\* nothing of the catalogue or of the command queue changes
TablesAndQueueUnchanged ==
  Prices' = Prices /\ orphans' = orphans /\ command_queue' = command_queue

\* C23: an invalid set_price, set_inventory or set_capacity request changes
\* neither the catalogue nor the command queue.
C23_InvalidRequestNoChange ==
  [][/\ \A payload \in Payloads(PriceInputs) :
          (InvalidRequest(payload, 4) /\ HandlePriceUpdate(payload))
            => TablesAndQueueUnchanged
     /\ \A payload \in Payloads(ByteInputs) :
          (InvalidRequest(payload, 1)
             /\ (HandleInventoryUpdate(payload) \/ HandleCapacityUpdate(payload)))
            => TablesAndQueueUnchanged]_vars

\* the case of C23: an invalid request was answered with an error and has left
\* the catalogue and the queue as they were
C23_Witness ==
  /\ published # <<>> /\ LastPublished.error
  /\ Prices = InitCatalogue /\ orphans = <<>> /\ command_queue = <<>>

\* the step publishes exactly one message, on the topic, with success false and
\* an error
AnsweredWithError(topic) ==
  published' = Append(published, Response(topic, FALSE, TRUE))

\* C24: every invalid set_price, set_inventory or set_capacity request handled
\* while MQTT is connected is answered on its status topic with success false
\* and an error.
C24_InvalidRequestAnswered ==
  [][/\ \A payload \in Payloads(PriceInputs) :
          (connected /\ InvalidRequest(payload, 4) /\ HandlePriceUpdate(payload))
            => AnsweredWithError("price_update_status")
     /\ \A payload \in Payloads(ByteInputs) :
          (connected /\ InvalidRequest(payload, 1) /\ HandleInventoryUpdate(payload))
            => AnsweredWithError("inventory_update_status")
     /\ \A payload \in Payloads(ByteInputs) :
          (connected /\ InvalidRequest(payload, 1) /\ HandleCapacityUpdate(payload))
            => AnsweredWithError("capacity_update_status")]_vars

\* the case of C24: an invalid set_capacity request was answered with an error
C24_Witness ==
  /\ published # <<>>
  /\ LastPublished.topic = "capacity_update_status"
  /\ LastPublished.error /\ ~LastPublished.success

\* the selections a payload targets: its selection, else its tray, else all
Targeted(payload) ==
  IF payload.selection # None THEN {payload.selection}
  ELSE IF payload.tray # None THEN TraySelections(payload.tray)
  ELSE AllSelections

\* a valid set_inventory or set_capacity request: a value of 0..255 and a target
ValidByteRequest(payload) ==
  /\ ~InvalidRequest(payload, 1)
  /\ payload.selection # None \/ payload.tray # None \/ payload.all

\* C25: after a valid set_inventory (set_capacity) request in any targeting
\* mode, handled while MQTT is connected, the catalogue lookup of every targeted
\* selection returns a document whose inventory (capacity) is the written value,
\* also for the selections that had no document before.
C25_ByteWriteReadBack ==
  [][\A payload \in Payloads(ByteInputs) :
       /\ (connected /\ ValidByteRequest(payload) /\ HandleInventoryUpdate(payload))
            => \A s \in Targeted(payload) :
                 Prices'[s].present /\ Prices'[s].inventory = payload.value
       /\ (connected /\ ValidByteRequest(payload) /\ HandleCapacityUpdate(payload))
            => \A s \in Targeted(payload) :
                 Prices'[s].present /\ Prices'[s].capacity = payload.value]_vars

\* the case of C25: a set_inventory for selection 36, which had no document,
\* reads back
C25_Witness ==
  /\ Prices[36].present /\ Prices[36].inventory = 5
  /\ ~InitCatalogue[36].present
  /\ orphans = <<>>

\* C26: the handling of every decoded packet other than POLL and ACK, whatever
\* the length of its payload, transmits an ACK while the link is up.
C26_EveryPacketAcked ==
  [][/\ \A n \in SeqBytes, s \in {0} \cup Selections, now \in ClockValues :
          VmcSelectCancel(n, s, now) => AckSent(sent_now')
     /\ \A st \in StatusValues, now \in ClockValues :
          VmcDispensingStatus(st, now) => AckSent(sent_now')
     /\ \A cmd \in OtherCommands, payload_len \in PayloadLengths :
          VmcPacket(cmd, payload_len) => AckSent(sent_now')]_vars

\* the case of C26: the dispense-success status of a purchase was answered with
\* one ACK
C26_Witness ==
  /\ InPhase(txns, "dispensed") # {}
  /\ sent_now = OneAck
  /\ Awaiting = {} /\ command_queue = <<>> /\ ready = <<>>

\* C27: the last byte of a packet built by create_packet is the XOR of the bytes
\* before it, and its bytes, read in one piece or in any fragments, make the
\* decoder hand on exactly one packet, with the command, the packet number and
\* the data the packet was built from.
C27_RoundTrip ==
  LET f == sent_frames[1] IN
  /\ f.bytes[Len(f.bytes)] = calculate_xor(SubSeq(f.bytes, 1, Len(f.bytes) - 1))
  /\ Len(dispatched) <= 1
  /\ \A k \in 1..Len(dispatched) :
       decode_packet(dispatched[k]) = [cmd |-> f.cmd, seq |-> f.seq, data |-> f.data]
  /\ stream = <<>> => Len(dispatched) = 1 /\ recv_buffer = <<>>

\* the case of C27: a packet whose command and data hold the bytes of STX was
\* read to its end and handed on
C27_Witness ==
  /\ stream = <<>>
  /\ Len(dispatched) = 1
  /\ sent_frames[1].data = <<250, 251>>
  /\ sent_frames[1].cmd = 250

\* C28: the DIRECT_DRIVE that an approval schedules names the selection of the
\* approved purchase, and the inventory decremented with it is that selection's,
\* also when a SELECT packet was handled between the end of the purchase task
\* and its callback.
C28_DispenseIsForPurchasedSelection ==
  [][(task.result = "approve" /\ PaymentCallback
        /\ ScheduledDD(ready') # ScheduledDD(Tail(ready)))
       => LET s == txns[task.txn].sel
              dd == ScheduledDD(ready')[Len(ScheduledDD(ready'))]
          IN /\ dd.data = <<1, 1>> \o to_bytes2(s)
             /\ \A k \in Selections :
                  k # s => Prices'[k].inventory = Prices[k].inventory]_vars

\* the case of C28: an approved purchase of selection 2 has scheduled its
\* DIRECT_DRIVE for selection 2
C28_Witness ==
  /\ ScheduledDD(ready) # <<>>
  /\ ScheduledDD(ready)[1].data = <<1, 1, 0, 2>>
  /\ txns[ScheduledDD(ready)[1].t].sel = 2

\* the DIRECT_DRIVE commands that are scheduled or queued
DDTotal(rdy, q) ==
  Len(ScheduledDD(rdy)) + Len(SelectSeq(q, LAMBDA e : e.cmd = DIRECT_DRIVE))

\* C29: no dispense is commanded without an approval: every step that commands
\* DIRECT_DRIVEs uses up as many gateway responses that had not commanded one
\* before, and the responses that commanded one are never more than the
\* responses with APPROVE that the gateway returned.
C29_NoDispenseWithoutApproval ==
  /\ [](Cardinality(dd_by_resp) <= Cardinality(gw_approved))
  /\ [][DDTotal(ready', command_queue') - DDTotal(ready, command_queue)
          <= Cardinality(dd_by_resp') - Cardinality(dd_by_resp)]_vars

\* the case of C29: two responses with APPROVE were returned and each of them
\* has commanded a DIRECT_DRIVE
C29_Witness ==
  /\ Cardinality(gw_approved) = 2
  /\ Cardinality(dd_by_resp) = 2

\* the ACK packets among the packets a step transmitted
AckCount(out) == Len(SelectSeq(out, LAMBDA e : e.cmd = ACK))

\* C30: the handling of one SELECT_CANCEL packet or of one DISPENSING_STATUS
\* packet transmits at most one ACK.
C30_AtMostOneAckPerPacket ==
  [][/\ \A n \in SeqBytes, s \in {0} \cup Selections, now \in ClockValues :
          AckCount(sent_now') <= 1 \/ ~VmcSelectCancel(n, s, now)
     /\ \A st \in StatusValues, now \in ClockValues :
          AckCount(sent_now') <= 1 \/ ~VmcDispensingStatus(st, now)]_vars

\* the case of C30: the report of a successful dispense was answered with one ACK
C30_Witness ==
  /\ InPhase(txns, "dispensed") # {}
  /\ Awaiting = {}
  /\ sent_now = OneAck
  /\ task.st = "none"

\* the configuration commands of the VMC
ConfigCommands == {SET_PRICE, SET_INVENTORY, SET_CAPACITY}

\* the entry e is one of the entries of the sequence q
IsIn(e, q) == \E j \in 1..Len(q) : q[j] = e

\* C31: a configuration command that the router enqueued is transmitted in the
\* end while the link stays up: no step takes it off the command queue other
\* than by transmitting it, whatever SELECT, cancel or purchase outcome the step
\* handles.
C31_ConfigCommandTransmitted ==
  [][\A k \in 1..Len(command_queue) :
       (command_queue[k].cmd \in ConfigCommands /\ serial_connected')
         => \/ IsIn(command_queue[k], command_queue')
            \/ IsIn(command_queue[k], sent_now')]_vars

\* the case of C31: a SET_PRICE that an MQTT request enqueued was transmitted on
\* a POLL
C31_Witness ==
  /\ n_mqtt > 0
  /\ serial_connected
  /\ HasCmd(sent_now, SET_PRICE)

\* a valid set_price request: a price that can be encoded and a target
ValidPriceRequest(payload) ==
  /\ ~InvalidRequest(payload, 4)
  /\ payload.selection # None \/ payload.tray # None \/ payload.all

\* the step publishes one message on the topic whose success tells whether the
\* step enqueued a command and whose results array is not empty
StatusReportsEnqueue(topic) ==
  /\ Len(published') = Len(published) + 1
  /\ LET m == published'[Len(published')]
     IN /\ m.topic = topic
        /\ m.success = (Len(command_queue') = Len(command_queue) + 1)
        /\ m.results >= 1

\* C32: for a valid set_price, set_inventory or set_capacity request in each
\* targeting mode (selection, tray, all), handled while MQTT is connected, the
\* status response published has success equal to whether the VMC command was
\* enqueued and a results array that is not empty.
C32_StatusReportsEnqueue ==
  [][/\ \A payload \in Payloads(PriceInputs) :
          (connected /\ ValidPriceRequest(payload) /\ HandlePriceUpdate(payload))
            => StatusReportsEnqueue("price_update_status")
     /\ \A payload \in Payloads(ByteInputs) :
          /\ (connected /\ ValidByteRequest(payload) /\ HandleInventoryUpdate(payload))
               => StatusReportsEnqueue("inventory_update_status")
          /\ (connected /\ ValidByteRequest(payload) /\ HandleCapacityUpdate(payload))
               => StatusReportsEnqueue("capacity_update_status")]_vars

\* the case of C32: a valid request was enqueued and answered with success true
\* and one result
C32_Witness ==
  /\ published # <<>>
  /\ LastPublished.topic = "inventory_update_status"
  /\ LastPublished.success /\ LastPublished.results = 1
  /\ HasCmd(command_queue, SET_INVENTORY)

\* C33: while the coordinator considers the payment terminal connected and the
\* payment client has a connection, the client holds the terminal id that an
\* INIT registered, also after the client has replaced a stale or failed
\* connection by itself.
C33_TerminalIdHeld ==
  (esocket_connected /\ es.is_connected) => es.terminal_id = TerminalId

\* the case of C33: a PURCHASE request was written while the terminal is
\* considered connected and the client holds the terminal id
C33_Witness ==
  /\ esocket_connected
  /\ es.terminal_id = TerminalId
  /\ task.st = "sent"
  /\ gw_pending # <<>>

\* C34: the coordinator marks the payment terminal connected only after an INIT
\* whose response holds ActionCode="APPROVE": an attempt whose INIT is answered
\* without APPROVE leaves the terminal marked not connected.
C34_ConnectedOnlyAfterApprovedInit ==
  [][\A ok \in BOOLEAN, answered \in BOOLEAN :
       ConnectPaymentTerminal(ok, answered, FALSE) => ~esocket_connected']_vars

\* the case of C34: an INIT was answered and the terminal is marked connected
\* with its id registered
C34_Witness ==
  /\ esocket_connected
  /\ es.is_connected /\ es.terminal_id = TerminalId
  /\ task.st = "none"

\* the loop l is inside _connect_serial: it has been called and has not returned
InConnectSerial(l) == loop_pc[l] = "sleeping"

\* C35: at most one serial connection attempt is in progress at any time:
\* _connect_serial called by connect() and _connect_serial called by the
\* connection monitor are never in progress together.
C35_OneSerialAttempt ==
  ~(InConnectSerial("initial") /\ InConnectSerial("monitor"))

\* the case of C35: connect() has established the serial connection at its
\* first attempt and has gone on to connect the payment terminal, the monitor
\* being at the top of its cycle
C35_Witness ==
  /\ loop_pc["initial"] = "returned" /\ slept["initial"] = <<>>
  /\ serial_connected /\ reader = "open"
  /\ loop_pc["monitor"] = "check"
  /\ loop_pc["payment"] = "returned"

\* the i-th delay of a run of failures: 5, 10, 20, 40, 60, 60, ...
Backoff(i) == IF i >= 5 THEN 60 ELSE 5 * 2^(i - 1)

\* C40: in each reconnect loop (serial link, payment terminal, MQTT) the delays
\* slept since the loop began or last succeeded are 5, 10, 20, 40, 60, 60, ...:
\* the first is 5, each failure doubles the delay, 60 is never exceeded, and a
\* success makes the next delay 5 again.
C40_BackoffDelays ==
  \A l \in Loops : \A i \in 1..Len(slept[l]) : slept[l][i] = Backoff(i)

\* the case of C40: the loops of the monitor's serial reconnect, of the payment
\* terminal and of MQTT have each failed six times in a row
C40_Witness ==
  /\ Len(slept["monitor"]) = MaxFailures
  /\ Len(slept["payment"]) = MaxFailures
  /\ Len(slept["mqtt"]) = MaxFailures

\* C36: every catalogue entry that holds an inventory and a capacity satisfies
\* 0 <= inventory <= capacity <= 255, after any sequence of set_inventory and
\* set_capacity requests.
C36_InventoryWithinCapacity ==
  \A s \in CatalogueKeys :
    (Prices[s].present /\ Prices[s].inventory # None /\ Prices[s].capacity # None)
      => /\ 0 <= Prices[s].inventory
         /\ Prices[s].inventory <= Prices[s].capacity
         /\ Prices[s].capacity <= 255

\* the case of C36: a set_capacity and a set_inventory were handled and left
\* selection 35 with inventory 5 within capacity 7
C36_Witness ==
  /\ n_mqtt = 2
  /\ Prices[35].inventory = 5 /\ Prices[35].capacity = 7
  /\ HasCmd(command_queue, SET_CAPACITY) /\ HasCmd(command_queue, SET_INVENTORY)

\* C37: the catalogue is a map keyed by selection: after any sequence of MQTT
\* writes every entry holds a selection number, and that number is in 1..100.
C37_CatalogueKeyedBySelection ==
  /\ orphans = <<>>
  /\ \A s \in CatalogueKeys : Prices[s].present => (1 <= s /\ s <= MaxSelection)

\* the case of C37: an MQTT write has added the entry of selection 36, and the
\* catalogue holds selections of 1..100 only
C37_Witness ==
  /\ n_mqtt > 0
  /\ Prices[36].present /\ ~Prices[37].present
  /\ orphans = <<>>
  /\ \A s \in CatalogueKeys : Prices[s].present => s <= MaxSelection

\* C38: every transaction id the coordinator generates, for a purchase or for
\* a reversal, is a string of six decimal digits whose first digit is not zero,
\* whatever the clock reads.
C38_SixDigitIds ==
  generated # <<>> =>
    /\ Len(generated.id) = 6
    /\ \A i \in 1..Len(generated.id) : generated.id[i] \in 0..9
    /\ generated.id[1] # 0

\* a reversal id generated at a clock reading that leaves a leading digit
C38_Witness ==
  /\ generated # <<>>
  /\ generated.kind = "reversal"
  /\ generated.id = <<2, 1, 4, 4, 0, 0>>

\* C39: every packet the UC builds carries a sequence byte of 1..255, whatever
\* sequence bytes the VMC sent (0 included), and each send advances the
\* counter by one, 255 being followed by 1.
C39_SeqByteInRange ==
  /\ \A i \in 1..Len(seq_sent) : seq_sent[i] \in 1..255
  /\ \A i \in 1..(Len(seq_sent) - 1) :
       seq_sent[i + 1] = IF seq_sent[i] = 255 THEN 1 ELSE seq_sent[i] + 1
  /\ seq_sent # <<>> =>
       packet_number = IF seq_sent[Len(seq_sent)] = 255 THEN 1
                       ELSE seq_sent[Len(seq_sent)] + 1

\* a handler that sent two packets across the wrap: 255, then 1
C39_Witness ==
  /\ seq_sent = <<255, 1>>
  /\ packet_number = 2

====
